---- MODULE Spec2Model ----
(***************************************************************************)
(* State-machine model of the transcription worker, the atomic JSON write  *)
(* primitive and the audio capture pipeline of gnomerecast.                *)
(*                                                                         *)
(*   SpecT     the worker thread of Transcriber.start_transcription, the   *)
(*             caller's cancellation and the main loop draining the idle   *)
(*             queue (transcriber.py), saving through atomic_write_json    *)
(*   FairSpecT SpecT with the scheduling fairness of the worker thread,    *)
(*             the write primitive and the main loop                       *)
(*   SpecIO    atomic_write_json called repeatedly, with process crashes   *)
(*             and power loss at every step (utils/io.py)                  *)
(*   SpecC     one AudioCapturer on the main loop: settings changes, the   *)
(*             default-source tracker, start/stop and the idle callbacks   *)
(*             that build and move the pipeline (audio/capture.py)         *)
(*   SpecR     one TranscriptItem written with save() and loaded back,     *)
(*             and files of the worker or of others loaded with            *)
(*             load_from_json (models/transcript_item.py)                  *)
(*   SpecP     concurrent runs loading their model through _MODEL_POOL     *)
(*   SpecE     the model cache behind ensure_cached, after its             *)
(*             specification (the function is not in the sources)          *)
(*   SpecM     one model of the model-management dialog: Download and      *)
(*             Cancel clicks, the caching thread and the status updates    *)
(*             (views/model_management_dialog.py)                          *)
(***************************************************************************)
EXTENDS Integers, Sequences, FiniteSets, TLC

\* ------------------------------------------------------------- bounds
MaxFiles == 2
MaxSegs == 1
MaxClock == 0
NChunks == 2
MaxWrites == 2
MaxQueue == 2
MaxInstances == 2
MaxIdle == 2
MaxDevices == 2

VARIABLES
    \* --- Transcriber._run_transcription_thread: arguments and locals
    file_paths, t_pc, index, status, cancellation_token,
    all_files_segments, current_file_segments, current_segments_done,
    cur_segment, saved_json_path, save_error_message, destination_path,
    \* --- environment of the worker: wall clock, main-loop idle queue
    now, idle_queue, delivered,
    \* --- history of the run
    transcribe_calls, late_segments, prep_outcome, save_failed, raised_at,
    cancel_seen,
    \* --- atomic_write_json: arguments, locals, the file system
    io_pc, io_data, io_target, temp_file_path, py_buf, dumped, tmp_file,
    tmp_synced, fs, old_content, leftover_tmps, io_exc, io_calls,
    \* --- AudioCapturer: GSettings, fields, the pipeline it holds
    settings, pipeline, appsink, _current_gst_id, _current_pw_serial,
    _is_following_system_default, _tracker_instance,
    _tracker_signal_handler_id, _target_device_id,
    _follow_system_default_setting,
    \* --- DefaultSourceTracker singleton, the main loop's idle sources
    tracker_connected, _default_node_props, tracker_handlers, cap_queue,
    \* --- history of the capturer
    n_alive, max_alive, last_run,
    \* --- whether stop() was called with no start() by the caller since
    stop_called,
    \* --- the GSettings handlers of the capturer (47-49, 349-355)
    settings_handlers,
    \* --- one call of _build_pipeline: its arguments, what it did
    build_args, build_ret,
    \* --- DefaultSourceTracker: the class slot, the instance's handlers and
    \* --- idle sources, what its object manager sees, the system's default
    _instance, instances_made, setup_handler, metadata_handler, wp_metadata,
    wp_default, wp_nodes, objects_vanished, trk_idle, last_check, last_got,
    \* --- the last default-changed emission of the current instance
    last_emitted,
    \* --- one call of get_input_devices: the monitor's answer, the list
    monitor_in, devices_ret,
    \* --- one TranscriptItem, the JSON file written for it, what was loaded
    rec_item, rec_file, rec_loaded, rec_writer,
    \* --- Transcriber._MODEL_POOL and the runs that load a model through it
    _MODEL_POOL, pool_pc, model_key, run_model, models_made,
    \* --- the model cache behind ensure_cached and the calls made to it
    cache_status, prep_calls, ec_pc, ec_name, ec_progress,
    \* --- one ModelItem of the model-management dialog, the dialog's
    \* --- active_downloads entry for it, its threads and idle callbacks
    is_downloading, item_status, active_downloads, cache_threads,
    check_threads, dlg_idle, downloads_started, max_cache_threads

tlocals == <<index, status, all_files_segments, current_file_segments,
             current_segments_done, cur_segment, saved_json_path,
             save_error_message, destination_path>>
thist == <<transcribe_calls, late_segments, prep_outcome, save_failed, raised_at>>
tvars == <<file_paths, t_pc, cancellation_token, tlocals, now, idle_queue,
           delivered, thist, cancel_seen>>
iolocals == <<io_data, io_target, temp_file_path, py_buf, dumped, tmp_synced,
              old_content, io_exc>>
iovars == <<io_pc, iolocals, tmp_file, fs, leftover_tmps, io_calls>>
cfields == <<pipeline, appsink, _current_gst_id, _current_pw_serial,
             _is_following_system_default>>
csub == <<_tracker_instance, _tracker_signal_handler_id, tracker_handlers>>
cset == <<settings, _target_device_id, _follow_system_default_setting,
          settings_handlers>>
ctrk == <<tracker_connected, _default_node_props>>
chist == <<n_alive, max_alive, last_run>>
cvars == <<cfields, csub, cset, ctrk, cap_queue, chist, stop_called>>
bvars == <<build_args, build_ret>>
wenv == <<wp_metadata, wp_default, wp_nodes, objects_vanished>>
wvars == <<_instance, instances_made, setup_handler, metadata_handler, wenv,
           trk_idle, last_check, last_got, last_emitted>>
dvars == <<monitor_in, devices_ret>>
rvars == <<rec_item, rec_file, rec_loaded, rec_writer>>
pvars == <<_MODEL_POOL, pool_pc, model_key, run_model, models_made>>
evars == <<cache_status, prep_calls, ec_pc, ec_name, ec_progress>>
mvars == <<is_downloading, item_status, active_downloads, cache_threads,
           check_threads, dlg_idle, downloads_started, max_cache_threads>>
yvars == <<rvars, pvars, evars, mvars>>
xvars == <<bvars, wvars, dvars, yvars>>
vars == <<tvars, iovars, cvars, xvars>>

\* ------------------------------------------------------------- values
None == <<>>
NoFile == [exists |-> FALSE, content |-> <<>>]
File(c) == [exists |-> TRUE, content |-> c]

FileList == <<[dir |-> "x", base |-> "a"], [dir |-> "y", base |-> "a"],
             [dir |-> "x", base |-> "b"]>>
Files == {FileList[i] : i \in 1..Len(FileList)}
Basename(f) == f.base
DestPath(ts, f) == <<ts, Basename(f)>>
Paths == {<<ts, b>> : ts \in 0..MaxClock, b \in {f.base : f \in Files}}

\* the batches tried: the sub-sequences of FileList of at most n files
Batches(n) ==
    LET Idx == UNION {[1..k -> 1..Len(FileList)] : k \in 0..n}
        Inc == {s \in Idx : \A i \in 1..Len(s) - 1 : s[i] < s[i + 1]}
    IN {[i \in 1..Len(s) |-> FileList[s[i]]] : s \in Inc}
Prefixes(s) == {SubSeq(s, 1, k) : k \in 0..Len(s)}

\* json.dump(data, tmp_file): the text of data, produced chunk by chunk.
Serialize(d) == [i \in 1..NChunks |-> <<d, i>>]

\* ------------------------------------------------- atomic_write_json

IOEnter(data, target) ==
    /\ io_data' = data
    /\ io_target' = target
    /\ old_content' = fs[target]
    /\ temp_file_path' = FALSE
    /\ py_buf' = <<>>
    /\ dumped' = 0
    /\ tmp_synced' = FALSE
    /\ io_exc' = "none"
    /\ io_pc' = "mkdir"
    /\ io_calls' = io_calls + 1
    /\ UNCHANGED <<tmp_file, fs, leftover_tmps>>

IORaise(exc, pc) ==
    /\ io_exc' = exc
    /\ io_pc' = pc

IOMkdir ==
    /\ io_pc = "mkdir"
    /\ \/ io_pc' = "open" /\ UNCHANGED io_exc
       \/ IORaise("OSError", "except")
    /\ UNCHANGED <<io_data, io_target, temp_file_path, py_buf, dumped,
                   tmp_synced, old_content, tmp_file, fs, leftover_tmps, io_calls>>
    /\ UNCHANGED <<tvars, cvars, xvars>>

IOOpen ==
    /\ io_pc = "open"
    /\ \/ /\ tmp_file' = File(<<>>)
          /\ temp_file_path' = TRUE
          /\ io_pc' = "dump"
          /\ UNCHANGED io_exc
       \/ /\ IORaise("OSError", "except")
          /\ UNCHANGED <<tmp_file, temp_file_path>>
    /\ UNCHANGED <<io_data, io_target, py_buf, dumped, tmp_synced,
                   old_content, fs, leftover_tmps, io_calls>>
    /\ UNCHANGED <<tvars, cvars, xvars>>

IODumpChunk ==
    /\ io_pc = "dump"
    /\ dumped < NChunks
    /\ py_buf' = Append(py_buf, Serialize(io_data)[dumped + 1])
    /\ dumped' = dumped + 1
    /\ UNCHANGED <<io_pc, io_data, io_target, temp_file_path, tmp_synced,
                   old_content, io_exc, tmp_file, fs, leftover_tmps, io_calls>>
    /\ UNCHANGED <<tvars, cvars, xvars>>

IOSpill ==
    /\ io_pc = "dump"
    /\ py_buf # <<>>
    /\ tmp_file' = File(tmp_file.content \o py_buf)
    /\ py_buf' = <<>>
    /\ UNCHANGED <<io_pc, io_data, io_target, temp_file_path, dumped,
                   tmp_synced, old_content, io_exc, fs, leftover_tmps, io_calls>>
    /\ UNCHANGED <<tvars, cvars, xvars>>

IODumpEnd ==
    /\ io_pc = "dump"
    /\ \/ dumped = NChunks /\ io_pc' = "flush" /\ UNCHANGED io_exc
       \/ \E exc \in {"TypeError", "OSError"} : IORaise(exc, "with_exit_exc")
    /\ UNCHANGED <<io_data, io_target, temp_file_path, py_buf, dumped,
                   tmp_synced, old_content, tmp_file, fs, leftover_tmps, io_calls>>
    /\ UNCHANGED <<tvars, cvars, xvars>>

IOFlush ==
    /\ io_pc = "flush"
    /\ \/ /\ tmp_file' = File(tmp_file.content \o py_buf)
          /\ py_buf' = <<>>
          /\ io_pc' = "fsync"
          /\ UNCHANGED io_exc
       \/ /\ IORaise("OSError", "with_exit_exc")
          /\ UNCHANGED <<tmp_file, py_buf>>
    /\ UNCHANGED <<io_data, io_target, temp_file_path, dumped, tmp_synced,
                   old_content, fs, leftover_tmps, io_calls>>
    /\ UNCHANGED <<tvars, cvars, xvars>>

\* line 47: os.fsync(tmp_file.fileno()) before the rename
FsyncSkipped == FALSE
FsyncDone == TRUE

IOFsync ==
    /\ io_pc = "fsync"
    /\ \/ /\ tmp_synced' = FsyncDone
          /\ io_pc' = "with_exit"
          /\ UNCHANGED io_exc
       \/ /\ IORaise("OSError", "with_exit_exc")
          /\ UNCHANGED tmp_synced
    /\ UNCHANGED <<io_data, io_target, temp_file_path, py_buf, dumped,
                   old_content, tmp_file, fs, leftover_tmps, io_calls>>
    /\ UNCHANGED <<tvars, cvars, xvars>>

IOWithExit ==
    /\ io_pc = "with_exit"
    /\ io_pc' = "replace"
    /\ UNCHANGED <<iolocals, tmp_file, fs, leftover_tmps, io_calls>>
    /\ UNCHANGED <<tvars, cvars, xvars>>

IOWithExitExc ==
    /\ io_pc = "with_exit_exc"
    /\ \/ tmp_file' = File(tmp_file.content \o py_buf)
       \/ tmp_file' = tmp_file
    /\ py_buf' = <<>>
    /\ io_pc' = "except"
    /\ UNCHANGED <<io_data, io_target, temp_file_path, dumped, tmp_synced,
                   old_content, io_exc, fs, leftover_tmps, io_calls>>
    /\ UNCHANGED <<tvars, cvars, xvars>>

IOReplace ==
    /\ io_pc = "replace"
    /\ \/ /\ fs' = [fs EXCEPT ![io_target] = tmp_file]
          /\ tmp_file' = NoFile
          /\ io_pc' = "returned"
          /\ UNCHANGED io_exc
       \/ /\ IORaise("OSError", "except")
          /\ UNCHANGED <<fs, tmp_file>>
    /\ UNCHANGED <<io_data, io_target, temp_file_path, py_buf, dumped,
                   tmp_synced, old_content, leftover_tmps, io_calls>>
    /\ UNCHANGED <<tvars, cvars, xvars>>

\* lines 61, 70, 78: raise at the end of each handler
IOAfterExceptSwallowed == "returned"
IOAfterExcept == "raised"
\* lines 53-78: the handler removes the temporary file when the call made
\* one; os.remove may fail, which is logged and leaves the file behind
IOExcept ==
    /\ io_pc = "except"
    /\ IF temp_file_path /\ tmp_file.exists
       THEN \/ tmp_file' = NoFile /\ UNCHANGED leftover_tmps
            \/ /\ tmp_file' = NoFile
               /\ leftover_tmps' = leftover_tmps + 1
       ELSE UNCHANGED <<tmp_file, leftover_tmps>>
    /\ io_pc' = IOAfterExcept
    /\ UNCHANGED <<iolocals, fs, io_calls>>
    /\ UNCHANGED <<tvars, cvars, xvars>>

\* the call is over: its frame is gone
IOLeave ==
    /\ io_pc' = "idle"
    /\ io_data' = None
    /\ io_target' = None
    /\ old_content' = NoFile
    /\ temp_file_path' = FALSE
    /\ py_buf' = <<>>
    /\ dumped' = 0
    /\ tmp_synced' = FALSE
    /\ io_exc' = "none"
    /\ UNCHANGED <<tmp_file, fs, leftover_tmps, io_calls>>

IOStep ==
    \/ IOMkdir \/ IOOpen \/ IODumpChunk \/ IOSpill \/ IODumpEnd \/ IOFlush
    \/ IOFsync \/ IOWithExit \/ IOWithExitExc \/ IOReplace \/ IOExcept

IORunning == io_pc \in {"mkdir", "open", "dump", "flush", "fsync", "with_exit",
                        "with_exit_exc", "replace", "except"}

\* What a file's inode holds after power loss: all of it once fsynced,
\* otherwise any prefix the kernel happened to write back.
Survives(f, synced) ==
    IF synced THEN {f} ELSE {File(c) : c \in Prefixes(f.content)}

IOInitVars ==
    /\ io_pc = "idle"
    /\ io_data = None
    /\ io_target = None
    /\ temp_file_path = FALSE
    /\ py_buf = <<>>
    /\ dumped = 0
    /\ tmp_synced = FALSE
    /\ tmp_file = NoFile
    /\ old_content = NoFile
    /\ leftover_tmps = 0
    /\ io_exc = "none"
    /\ io_calls = 0

\* ------------------------------------------------------ AudioCapturer

TargetIds == {"", "pipewire-default", "usb"}
\* Python's None where the other values are strings; identifiers and PipeWire
\* serials are opaque to the capturer and are held as strings
PyNone == "None"
TrackerDefaults == {[gst_id |-> "pw:1", pw_serial |-> "1"],
                    [gst_id |-> "pw:2", pw_serial |-> "2"]}
SettingsValues == [id : TargetIds, follow : BOOLEAN]

\* get_input_devices(): the two synthetic entries, then the monitor's devices
SyntheticDevices ==
    <<[id |-> "", gst_plugin_name |-> "autoaudiosrc"],
      [id |-> "pipewire-default", gst_plugin_name |-> "pipewiresrc"]>>
InputDeviceListings ==
    {SyntheticDevices} \cup
    {Append(SyntheticDevices, [id |-> "usb", gst_plugin_name |-> p]) :
        p \in {"pipewiresrc", "pulsesrc", "alsasrc", PyNone}}

\* lines 153-157: the first device of the listing with the id
FindDeviceNever(listing, id) == None
FindDevice(listing, id) ==
    LET hits == {i \in 1..Len(listing) : listing[i].id = id} IN
    IF hits = {} THEN None
    ELSE listing[CHOOSE i \in hits : \A j \in hits : i <= j]

\* line 135: the user chose "Default PipeWire Source"
PipewireDefaultChosenNever(target) == FALSE
PipewireDefaultChosen(target) == target = "pipewire-default"

\* lines 125-178: the source element, its properties and the id recorded
\* line 127: tracker_gst_id and tracker_gst_id != "error"
HasTrackerIdAlways(tracker_gst_id) == TRUE
HasTrackerId(tracker_gst_id) == tracker_gst_id \notin {PyNone, "", "error"}

SelectSource(target, follow, tracker_gst_id, listing) ==
    IF follow
    THEN IF HasTrackerId(tracker_gst_id)
         THEN [rule |-> 1, name |-> "pipewiresrc",
               prop |-> <<"path", tracker_gst_id>>, gst_id |-> tracker_gst_id,
               following |-> TRUE]
         ELSE IF PipewireDefaultChosen(target)
         THEN [rule |-> 2, name |-> "pipewiresrc", prop |-> None,
               gst_id |-> "pipewire-default", following |-> TRUE]
         ELSE [rule |-> 3, name |-> "autoaudiosrc", prop |-> None,
               gst_id |-> "", following |-> TRUE]
    ELSE IF target \notin {PyNone, ""}
    THEN LET dev == FindDevice(listing, target) IN
         IF dev # None /\ dev.gst_plugin_name # PyNone
         THEN [rule |-> 4, name |-> dev.gst_plugin_name,
               prop |-> IF dev.gst_plugin_name = "pipewiresrc"
                        THEN <<"path", dev.id>>
                        ELSE IF dev.gst_plugin_name \in {"pulsesrc", "alsasrc"}
                        THEN <<"device", dev.id>>
                        ELSE None,
               gst_id |-> target, following |-> FALSE]
         ELSE [rule |-> 5, name |-> "autoaudiosrc", prop |-> None,
               gst_id |-> target, following |-> FALSE]
    ELSE [rule |-> 6, name |-> "autoaudiosrc", prop |-> None, gst_id |-> "",
          following |-> FALSE]

\* line 152: get_input_devices() is called in the specific-device branch only
ListingsSeen(target, follow) ==
    IF ~follow /\ target \notin {PyNone, ""}
    THEN InputDeviceListings ELSE {<<>>}

\* how the try block of _build_pipeline (186-225) can end; no_element is an
\* element other than the source and the appsink that could not be made
BuildOutcomes == {"ok", "no_source", "no_element", "link_fail", "exception"}

\* what the capturer holds: c = [pipeline, appsink, n_alive]
CleanupPipelineSyncSkipped(c) == c
CleanupPipelineSync(c) ==
    IF c.pipeline # None
    THEN [pipeline |-> None, appsink |-> PyNone, n_alive |-> c.n_alive - 1]
    ELSE c

\* lines 189-191 and 201-203: return False, with no cleanup
FailedBuildReturn(c) == c

\* line 187, then the elements that were made and (212-213) added and linked
NewPipeline(sel, linked) ==
    [state |-> "NULL", source |-> IF linked THEN sel.name ELSE PyNone,
     prop |-> IF linked THEN sel.prop ELSE None, linked |-> linked]

BuildSignals(outcome) ==
    IF outcome = "ok" THEN <<"source-changed">> ELSE <<"error">>

\* what the idle source run last did: a build (its result, whether it tore a
\* pipeline down first, the signals it emitted, whether start() was then
\* called), a move dropped at the guard, or something else
BuildRun(ok, replaced, signals, started) ==
    [did |-> "build", ok |-> ok, replaced |-> replaced, signals |-> signals,
     started |-> started]
IgnoredMoveRun == [did |-> "ignored_move"]
OtherRun == [did |-> "other"]

\* _build_pipeline (109-225); serial0 is _current_pw_serial on entry
BuildPipeline(target, follow, tracker_gst_id, tracker_pw_serial, serial0, outcome, listing) ==
    LET c0 == CleanupPipelineSync([pipeline |-> pipeline, appsink |-> appsink,
                                   n_alive |-> n_alive])
        sel == SelectSource(target, follow, tracker_gst_id, listing)
        created == [pipeline |-> NewPipeline(sel, FALSE), appsink |-> PyNone,
                    n_alive |-> c0.n_alive + 1]
        withsink == [created EXCEPT !.appsink = "audio-sink"]
        c1 == CASE outcome = "ok" ->
                     [withsink EXCEPT !.pipeline = NewPipeline(sel, TRUE)]
                [] outcome = "no_source" -> FailedBuildReturn(created)
                [] outcome = "no_element" -> FailedBuildReturn(withsink)
                [] outcome = "link_fail" -> CleanupPipelineSync(withsink)
                [] OTHER -> CleanupPipelineSync(created)
    IN /\ pipeline' = c1.pipeline
       /\ appsink' = c1.appsink
       /\ n_alive' = c1.n_alive
       /\ max_alive' = IF c0.n_alive + 1 > max_alive
                       THEN c0.n_alive + 1 ELSE max_alive
       /\ _is_following_system_default' = sel.following
       /\ _current_gst_id' = sel.gst_id
       /\ _current_pw_serial' = IF sel.rule = 1 THEN tracker_pw_serial
                                ELSE serial0

\* the idle sources of the capturer
UpdateCb == [kind |-> "update"]
MoveToCb(id, serial) == [kind |-> "move_to", gst_id |-> id, pw_serial |-> serial]
DoMoveCb(id, serial) == [kind |-> "do_move", gst_id |-> id, pw_serial |-> serial]
RebuildCb(ctx) == [kind |-> "rebuild", is_tracker_context |-> ctx]
DoStartCb == [kind |-> "do_start"]
DoStopCb == [kind |-> "do_stop"]
CleanupCb == [kind |-> "cleanup"]

IsPlaying == pipeline # None /\ pipeline.state = "PLAYING"

\* _manage_tracker_subscription (61-90): the subscription fields it leaves
\* and the idle sources it adds
NotSubscribedIgnored == TRUE
NotSubscribed == ~_tracker_instance
TrackerUsableUnchecked == TRUE
TrackerUsable == tracker_connected
ManageTrackerSubscription ==
    IF _follow_system_default_setting
    THEN IF NotSubscribed /\ TrackerUsable
         THEN [inst |-> TRUE, hid |-> 1, handlers |-> tracker_handlers + 1,
               following |-> _is_following_system_default,
               added |-> IF _default_node_props # None
                         THEN <<MoveToCb(_default_node_props.gst_id,
                                         _default_node_props.pw_serial)>>
                         ELSE <<RebuildCb(TRUE)>>]
         ELSE [inst |-> _tracker_instance, hid |-> _tracker_signal_handler_id,
               handlers |-> tracker_handlers,
               following |-> _is_following_system_default, added |-> <<>>]
    ELSE IF _tracker_instance /\ _tracker_signal_handler_id > 0
    THEN [inst |-> FALSE, hid |-> 0, handlers |-> tracker_handlers - 1,
          following |-> FALSE, added |-> <<>>]
    ELSE [inst |-> _tracker_instance, hid |-> _tracker_signal_handler_id,
          handlers |-> tracker_handlers, following |-> FALSE, added |-> <<>>]

\* lines 258-259 and 334-335: start() is called after a successful build of
\* a pipeline that was playing
RestartAfterBuildAlways(ok, is_playing) == ok
RestartAfterBuild(ok, is_playing) == ok /\ is_playing

\* _rebuild_pipeline_from_settings (227-264), run with the subscription inst
\* and the remaining idle sources q
RebuildPipelineFromSettings(is_tracker_context, inst, q) ==
    LET is_playing == IsPlaying
        tracked == is_tracker_context /\ inst /\ _default_node_props # None
        tracker_id_to_use == IF tracked THEN _current_gst_id ELSE PyNone
        tracker_serial_to_use == IF tracked THEN _current_pw_serial ELSE PyNone
    IN \E outcome \in BuildOutcomes,
          listing \in ListingsSeen(_target_device_id,
                                   _follow_system_default_setting) :
         /\ BuildPipeline(_target_device_id, _follow_system_default_setting,
                          tracker_id_to_use, tracker_serial_to_use,
                          _current_pw_serial, outcome, listing)
         /\ cap_queue' = IF RestartAfterBuild(outcome = "ok", is_playing)
                         THEN Append(q, DoStartCb) ELSE q
         /\ last_run' = BuildRun(outcome = "ok", pipeline # None,
                                 BuildSignals(outcome),
                                 RestartAfterBuild(outcome = "ok", is_playing))

\* line 316: _do_move acts only while the setting is on
MoveGuardDropped == TRUE
MoveGuard == _follow_system_default_setting

\* no call of _build_pipeline, no tracker and no device listing under study
BIdleVars == build_args = None /\ build_ret = None
WIdleVars ==
    /\ _instance = 0
    /\ instances_made = 0
    /\ setup_handler = FALSE
    /\ metadata_handler = FALSE
    /\ wp_metadata = FALSE
    /\ wp_default = PyNone
    /\ wp_nodes = {}
    /\ objects_vanished = FALSE
    /\ trk_idle = <<>>
    /\ last_check = None
    /\ last_got = 0
    /\ last_emitted = None
DIdleVars == monitor_in = None /\ devices_ret = None
RIdleVars ==
    /\ rec_item = None
    /\ rec_file = None
    /\ rec_loaded = None
    /\ rec_writer = "none"
MaxRuns == 2
MaxModels == 3
MaxPrepCalls == 2
Runs == 1..MaxRuns
ModelKeys == {<<"tiny", "cpu", "int8">>, <<"tiny", "auto", "auto">>}
ModelNames == {"tiny", "base"}
PIdleVars ==
    /\ _MODEL_POOL = [k \in ModelKeys |-> 0]
    /\ pool_pc = [r \in Runs |-> "idle"]
    /\ model_key = [r \in Runs |-> None]
    /\ run_model = [r \in Runs |-> 0]
    /\ models_made = 0
EIdleVars ==
    /\ cache_status = [n \in ModelNames |-> "NotCached"]
    /\ prep_calls = [n \in ModelNames |-> 0]
    /\ ec_pc = [r \in Runs |-> "idle"]
    /\ ec_name = [r \in Runs |-> PyNone]
    /\ ec_progress = [r \in Runs |-> <<>>]
MaxDownloads == 3
MIdleVars ==
    /\ is_downloading = FALSE
    /\ item_status = "Checking status..."
    /\ active_downloads = {}
    /\ cache_threads = 0
    /\ check_threads = 0
    /\ dlg_idle = <<>>
    /\ downloads_started = 0
    /\ max_cache_threads = 0
YIdleVars == RIdleVars /\ PIdleVars /\ EIdleVars /\ MIdleVars
XIdleVars == BIdleVars /\ WIdleVars /\ DIdleVars /\ YIdleVars

CIdleVars ==
    /\ settings_handlers = FALSE
    /\ settings = [id |-> "", follow |-> FALSE]
    /\ pipeline = None
    /\ appsink = PyNone
    /\ _current_gst_id = PyNone
    /\ _current_pw_serial = PyNone
    /\ _is_following_system_default = FALSE
    /\ _tracker_instance = FALSE
    /\ _tracker_signal_handler_id = 0
    /\ _target_device_id = PyNone
    /\ _follow_system_default_setting = FALSE
    /\ tracker_connected = FALSE
    /\ _default_node_props = None
    /\ tracker_handlers = 0
    /\ cap_queue = <<>>
    /\ n_alive = 0
    /\ max_alive = 0
    /\ stop_called = FALSE
    /\ last_run = None

\* ---------------------------------------------- Transcriber (worker)

Completion(st, segs, path, err) ==
    [kind |-> "completion", status |-> st, segments |-> segs, path |-> path,
     err |-> err]
Progress(done, dl) == [kind |-> "progress", done |-> done, dl |-> dl]
SegmentCb(seg) == [kind |-> "segment", segment |-> seg]

\* final_json_data (transcriber.py 262-271)
JsonData(uuid, ts, f, segs) ==
    [uuid |-> uuid, timestamp |-> ts, segments |-> segs, source_path |-> f,
     output_filename |-> DestPath(ts, f)]

\* ensure_cached(model_name, device, compute_type, progress_cb): ways it ends
EnsureCachedResults == {"ready", "ModelNotAvailableError", "Exception"}

\* the raw percentages ensure_cached reports to progress_cb before it ends
EnsureCachedProgress(outcome) ==
    CASE outcome = "ready" -> <<0, 100>>
      [] outcome = "ModelNotAvailableError" -> <<0, -1>>
      [] OTHER -> <<0>>

\* _ensure_cached_progress_adapter: one idle_add(progress_callback, ...) per report
AdapterCalls(raws) ==
    [i \in 1..Len(raws) |->
        Progress(current_segments_done,
                 IF raws[i] >= 0 THEN raws[i] \div 100 ELSE raws[i])]

\* lines 112, 120, 157: status after a failed model preparation
PcAfterPrepErrorGoesOn == "load_model"
\* lines 117, 125: return, which leaves through the finally block
PcAfterPrepError == "finally"
StatusOnPrepErrorKept == "completed"
StatusOnPrepError == "error"

\* line 289
StatusOnTranscribeErr == "error"

\* line 291: break leaves the loop over the files
PcAfterTranscribeErrNoBreak == "after_segments"
PcAfterTranscribeErr == "finally"

\* line 283
StatusOnSaveErrUnflagged == "completed"
StatusOnSaveErr == "completed_save_failed"

\* line 199: cancellation_token.is_set() inside the segment loop
SegmentLoopCancelledUnchecked == FALSE
SegmentLoopCancelled == cancellation_token

\* line 164: cancellation_token.is_set() at the head of the file loop
FileLoopCancelled == cancellation_token

\* line 297: the segments handed to the completion callback
FinalSegmentsToPass ==
    IF status \in {"completed", "completed_save_failed", "cancelled"}
    THEN all_files_segments ELSE <<>>

\* lines 166, 201: the status once cancellation_token.is_set() was seen
StatusWhenCancelledKept == "completed"
StatusWhenCancelled == "cancelled"

\* GLib.idle_add(callback, *args): the call is queued for the main loop, not
\* made by the calling thread (298, 314)
CalledDirectly(cb) ==
    /\ delivered' = Append(delivered, cb)
    /\ UNCHANGED idle_queue
IdleAdd(cb) ==
    /\ idle_queue' = Append(idle_queue, cb)
    /\ UNCHANGED delivered

TInitVars ==
    /\ file_paths \in Batches(MaxFiles)
    /\ t_pc = "idle"
    /\ index = 0
    /\ status = "completed"
    /\ cancellation_token = FALSE
    /\ all_files_segments = <<>>
    /\ current_file_segments = <<>>
    /\ current_segments_done = 0
    /\ cur_segment = None
    /\ saved_json_path = None
    /\ save_error_message = "None"
    /\ destination_path = None
    /\ now = 0
    /\ idle_queue = <<>>
    /\ delivered = <<>>
    /\ transcribe_calls = <<>>
    /\ late_segments = {}
    /\ prep_outcome = "none"
    /\ save_failed = {}
    /\ raised_at = 0
    /\ cancel_seen = FALSE

\* start_transcription (302-334)
StartTranscription ==
    /\ t_pc = "idle"
    /\ IF file_paths = <<>>
       THEN /\ IdleAdd(Completion("no_files", <<>>, None, "No files provided."))
            /\ t_pc' = "done"
       ELSE /\ t_pc' = "makedirs"
            /\ UNCHANGED <<idle_queue, delivered>>
    /\ UNCHANGED <<file_paths, cancellation_token, tlocals, now, thist, iovars>>
    /\ UNCHANGED <<cancel_seen, cvars, xvars>>

\* the caller sets the returned threading.Event
Cancel ==
    /\ t_pc \notin {"idle", "done", "dead"}
    /\ ~cancellation_token
    /\ cancellation_token' = TRUE
    /\ UNCHANGED <<file_paths, t_pc, tlocals, now, idle_queue, delivered,
                   thist, iovars>>
    /\ UNCHANGED <<cancel_seen, cvars, xvars>>

\* lines 51-52: os.makedirs precedes the try block
MakeDirs ==
    /\ t_pc = "makedirs"
    /\ \/ t_pc' = "ensure_cached"
       \/ t_pc' = "dead"
    /\ UNCHANGED <<file_paths, cancellation_token, tlocals, now, idle_queue,
                   delivered, thist, iovars>>
    /\ UNCHANGED <<cancel_seen, cvars, xvars>>

\* lines 77-129
EnsureCached ==
    /\ t_pc = "ensure_cached"
    /\ \E outcome \in EnsureCachedResults :
         LET q == idle_queue \o AdapterCalls(EnsureCachedProgress(outcome)) IN
         /\ prep_outcome' = outcome
         /\ CASE outcome = "ready" ->
                   /\ idle_queue' = Append(q, Progress(current_segments_done, -1))
                   /\ t_pc' = "load_model"
                   /\ UNCHANGED <<status, save_error_message>>
              [] outcome = "ModelNotAvailableError" ->
                   /\ status' = StatusOnPrepError
                   /\ save_error_message' = "model-unavailable"
                   /\ idle_queue' = Append(q,
                          Completion(status', <<>>, None, save_error_message'))
                   /\ t_pc' = PcAfterPrepError
              [] OTHER ->
                   /\ status' = StatusOnPrepError
                   /\ save_error_message' = "Caching error"
                   /\ idle_queue' = q \o
                          <<Progress(current_segments_done, -1),
                            Completion(status', <<>>, None, save_error_message')>>
                   /\ t_pc' = PcAfterPrepError
    /\ UNCHANGED <<file_paths, cancellation_token, index, all_files_segments,
                   current_file_segments, current_segments_done, cur_segment,
                   saved_json_path, destination_path, now, delivered,
                   transcribe_calls, late_segments, save_failed, raised_at,
                   iovars>>
    /\ UNCHANGED <<cancel_seen, cvars, xvars>>

\* lines 143-161
LoadModel ==
    /\ t_pc = "load_model"
    /\ \/ /\ t_pc' = "file_loop"
          /\ index' = 1
          /\ UNCHANGED <<status, idle_queue, prep_outcome>>
       \/ /\ status' = StatusOnPrepError
          /\ idle_queue' = Append(idle_queue,
                 Completion(status', <<>>, None, "Failed to load model"))
          /\ prep_outcome' = "load_error"
          /\ t_pc' = "finally"
          /\ UNCHANGED index
    /\ UNCHANGED <<file_paths, cancellation_token, all_files_segments,
                   current_file_segments, current_segments_done, cur_segment,
                   saved_json_path, save_error_message, destination_path, now,
                   delivered, transcribe_calls, late_segments, save_failed,
                   raised_at, iovars>>
    /\ UNCHANGED <<cancel_seen, cvars, xvars>>

\* lines 163-174: head of the loop over file_paths
FileLoop ==
    /\ t_pc = "file_loop"
    /\ IF index > Len(file_paths)
       THEN /\ t_pc' = "finally"
            /\ UNCHANGED <<status, current_file_segments>>
       ELSE IF FileLoopCancelled
       THEN /\ status' = StatusWhenCancelled
            /\ t_pc' = "finally"
            /\ UNCHANGED current_file_segments
       ELSE /\ current_file_segments' = <<>>
            /\ t_pc' = "transcribe"
            /\ UNCHANGED status
    /\ cancel_seen' = (cancel_seen \/ (index <= Len(file_paths) /\ FileLoopCancelled))
    /\ UNCHANGED <<file_paths, cancellation_token, index, all_files_segments,
                   current_segments_done, cur_segment, saved_json_path,
                   save_error_message, destination_path, now, idle_queue,
                   delivered, thist, iovars>>
    /\ UNCHANGED <<cvars, xvars>>

\* lines 287-291: except Exception as transcribe_err
TranscribeErr ==
    /\ status' = StatusOnTranscribeErr
    /\ save_error_message' = "transcribe_err"
    /\ raised_at' = index
    /\ t_pc' = PcAfterTranscribeErr

\* lines 183-196: model.transcribe(file_path, ...)
Transcribe ==
    /\ t_pc = "transcribe"
    /\ transcribe_calls' = Append(transcribe_calls, index)
    /\ \/ /\ t_pc' = "next_segment"
          /\ UNCHANGED <<status, save_error_message, raised_at>>
       \/ TranscribeErr
    /\ UNCHANGED <<file_paths, cancellation_token, index, all_files_segments,
                   current_file_segments, current_segments_done, cur_segment,
                   saved_json_path, destination_path, now, idle_queue,
                   delivered, late_segments, prep_outcome, save_failed, iovars>>
    /\ UNCHANGED <<cancel_seen, cvars, xvars>>

\* line 198: the for statement takes the next item of segments_generator
NextSegment ==
    /\ t_pc = "next_segment"
    /\ \/ /\ Len(current_file_segments) < MaxSegs
          /\ cur_segment' = [file |-> index, id |-> Len(current_file_segments)]
          /\ late_segments' = IF cancellation_token
                              THEN late_segments \cup {cur_segment'}
                              ELSE late_segments
          /\ t_pc' = "check_segment"
          /\ UNCHANGED <<status, save_error_message, raised_at>>
       \/ /\ t_pc' = "after_segments"
          /\ UNCHANGED <<cur_segment, late_segments, status,
                         save_error_message, raised_at>>
       \/ /\ TranscribeErr
          /\ UNCHANGED <<cur_segment, late_segments>>
    /\ UNCHANGED <<file_paths, cancellation_token, index, all_files_segments,
                   current_file_segments, current_segments_done,
                   saved_json_path, destination_path, now, idle_queue,
                   delivered, transcribe_calls, prep_outcome, save_failed,
                   iovars>>
    /\ UNCHANGED <<cancel_seen, cvars, xvars>>

\* lines 199-228: body of the segment loop
CheckSegment ==
    /\ t_pc = "check_segment"
    /\ cancel_seen' = (cancel_seen \/ SegmentLoopCancelled)
    /\ IF SegmentLoopCancelled
       THEN /\ status' = StatusWhenCancelled
            /\ t_pc' = "after_segments"
            /\ UNCHANGED <<current_segments_done, current_file_segments,
                           idle_queue>>
       ELSE /\ current_segments_done' = cur_segment.id + 1
            /\ current_file_segments' = Append(current_file_segments, cur_segment)
            /\ idle_queue' = idle_queue \o
                   <<Progress(current_segments_done', -1), SegmentCb(cur_segment)>>
            /\ t_pc' = "next_segment"
            /\ UNCHANGED status
    /\ UNCHANGED <<file_paths, cancellation_token, index, all_files_segments,
                   cur_segment, saved_json_path, save_error_message,
                   destination_path, now, delivered, thist, iovars>>
    /\ UNCHANGED <<cvars, xvars>>

\* lines 231-276: after the segment loop, up to the call of atomic_write_json
AfterSegments ==
    /\ t_pc = "after_segments"
    /\ IF status = "cancelled"
       THEN /\ t_pc' = "finally"
            /\ UNCHANGED <<index, idle_queue, destination_path, now, iovars>>
       ELSE IF status = "completed"
       THEN /\ idle_queue' = Append(idle_queue,
                                    Progress(current_segments_done, -1))
            /\ \E ts \in now..MaxClock :
                 /\ now' = ts
                 /\ destination_path' = DestPath(ts, file_paths[index])
                 /\ IOEnter(JsonData(io_calls + 1, ts, file_paths[index],
                                     current_file_segments),
                            destination_path')
            /\ t_pc' = "save"
            /\ UNCHANGED index
       ELSE /\ index' = index + 1
            /\ t_pc' = "file_loop"
            /\ UNCHANGED <<idle_queue, destination_path, now, iovars>>
    /\ UNCHANGED <<file_paths, cancellation_token, status, all_files_segments,
                   current_file_segments, current_segments_done, cur_segment,
                   saved_json_path, save_error_message, delivered, thist>>
    /\ UNCHANGED <<cancel_seen, cvars, xvars>>

\* lines 277-284: atomic_write_json has returned or raised
SaveDone ==
    /\ t_pc = "save"
    /\ io_pc \in {"returned", "raised"}
    /\ IF io_pc = "returned"
       THEN /\ saved_json_path' = destination_path
            /\ all_files_segments' = all_files_segments \o current_file_segments
            /\ UNCHANGED <<status, save_error_message, save_failed>>
       ELSE /\ status' = StatusOnSaveErr
            /\ save_error_message' = "save_err"
            /\ save_failed' = save_failed \cup {index}
            /\ UNCHANGED <<saved_json_path, all_files_segments>>
    /\ IOLeave
    /\ index' = index + 1
    /\ t_pc' = "file_loop"
    /\ UNCHANGED <<file_paths, cancellation_token, current_file_segments,
                   current_segments_done, cur_segment, destination_path, now,
                   idle_queue, delivered, transcribe_calls, late_segments,
                   prep_outcome, raised_at>>
    /\ UNCHANGED <<cancel_seen, cvars, xvars>>

\* lines 294-299: finally
Finally ==
    /\ t_pc = "finally"
    /\ IdleAdd(Completion(status, FinalSegmentsToPass, saved_json_path,
                          save_error_message))
    /\ t_pc' = "done"
    /\ UNCHANGED <<file_paths, cancellation_token, tlocals, now, thist, iovars>>
    /\ UNCHANGED <<cancel_seen, cvars, xvars>>

\* the GLib main loop runs the oldest idle callback
MainLoopRun ==
    /\ idle_queue # <<>>
    /\ delivered' = Append(delivered, Head(idle_queue))
    /\ idle_queue' = Tail(idle_queue)
    /\ UNCHANGED <<file_paths, t_pc, cancellation_token, tlocals, now, thist,
                   iovars>>
    /\ UNCHANGED <<cancel_seen, cvars, xvars>>

\* atomic_write_json runs on the worker thread: IOStep is enabled only
\* between AfterSegments (the call) and SaveDone (the return)
Worker ==
    \/ MakeDirs \/ EnsureCached \/ LoadModel \/ FileLoop \/ Transcribe
    \/ NextSegment \/ CheckSegment \/ AfterSegments \/ IOStep \/ SaveDone
    \/ Finally

TInit ==
    /\ TInitVars
    /\ IOInitVars
    /\ fs = [p \in Paths |-> NoFile]
    /\ CIdleVars
    /\ XIdleVars
TNext == StartTranscription \/ Cancel \/ Worker \/ MainLoopRun
SpecT == TInit /\ [][TNext]_vars
FairSpecT == SpecT /\ WF_vars(Worker) /\ WF_vars(MainLoopRun)

\* ------------------------------------------- atomic_write_json alone

IOTarget == <<0, "a">>
IOFile == [dir |-> "x", base |-> "a"]
IOData == {JsonData(u, 0, IOFile, <<>>) : u \in 1..MaxWrites}
IOOldData == JsonData(0, 0, IOFile, <<>>)

IOCall ==
    /\ io_pc \in {"idle", "returned", "raised"}
    /\ io_calls < MaxWrites
    /\ IOEnter(JsonData(io_calls + 1, 0, IOFile, <<>>), IOTarget)
    /\ UNCHANGED <<tvars, cvars, xvars>>

\* the process dies: the kernel keeps what it was given
ProcessCrash ==
    /\ IORunning
    /\ io_pc' = "crashed"
    /\ py_buf' = <<>>
    /\ UNCHANGED <<io_data, io_target, temp_file_path, dumped, tmp_synced,
                   old_content, io_exc, tmp_file, fs, leftover_tmps, io_calls,
                   tvars, cvars, xvars>>

\* power loss: the rename of this call may not have reached the disk, and a
\* file holds what was fsynced (or any prefix of what was written)
PowerLoss ==
    /\ IORunning \/ io_pc = "returned"
    /\ io_pc' = "crashed"
    /\ py_buf' = <<>>
    /\ IF io_pc = "returned"
       THEN \E f \in {old_content} \cup Survives(fs[io_target], tmp_synced) :
               fs' = [fs EXCEPT ![io_target] = f]
       ELSE fs' = fs
    /\ IF tmp_file.exists
       THEN tmp_file' \in Survives(tmp_file, tmp_synced)
       ELSE tmp_file' = tmp_file
    /\ UNCHANGED <<io_data, io_target, temp_file_path, dumped, tmp_synced,
                   old_content, io_exc, leftover_tmps, io_calls, tvars,
                   cvars, xvars>>

IOInit ==
    /\ IOInitVars
    /\ \E f \in {NoFile, File(Serialize(IOOldData))} :
          fs = [p \in Paths |-> IF p = IOTarget THEN f ELSE NoFile]
    /\ TInitVars
    /\ file_paths = <<>>
    /\ CIdleVars
    /\ XIdleVars
IONext == IOCall \/ IOStep \/ ProcessCrash \/ PowerLoss
SpecIO == IOInit /\ [][IONext]_vars

\* -------------------------------------- AudioCapturer on the main loop

CHead == Head(cap_queue)
CRest == Tail(cap_queue)

\* __init__ (27-52) has run: the fields hold the settings, the first update
\* is scheduled; the tracker singleton may already know a default
CInitVars ==
    /\ settings \in SettingsValues
    /\ pipeline = None
    /\ appsink = PyNone
    /\ _current_gst_id = PyNone
    /\ _current_pw_serial = PyNone
    /\ _is_following_system_default = FALSE
    /\ _tracker_instance = FALSE
    /\ _tracker_signal_handler_id = 0
    /\ _target_device_id = settings.id
    /\ _follow_system_default_setting = settings.follow
    /\ settings_handlers = TRUE
    /\ tracker_connected \in BOOLEAN
    /\ _default_node_props \in
          IF tracker_connected THEN {None} \cup TrackerDefaults ELSE {None}
    /\ tracker_handlers = 0
    /\ cap_queue = <<UpdateCb>>
    /\ n_alive = 0
    /\ max_alive = 0
    /\ stop_called = FALSE
    /\ last_run = None

\* a GSettings key changes: _on_settings_changed (55-59)
SettingsChanged ==
    /\ settings_handlers
    /\ Len(cap_queue) < MaxQueue
    /\ \E v \in SettingsValues :
         /\ \/ v.id # settings.id /\ v.follow = settings.follow
            \/ v.id = settings.id /\ v.follow # settings.follow
         /\ settings' = v
    /\ _target_device_id' = settings'.id
    /\ _follow_system_default_setting' = settings'.follow
    /\ cap_queue' = Append(cap_queue, UpdateCb)
    /\ UNCHANGED <<cfields, csub, ctrk, chist, settings_handlers>>
    /\ UNCHANGED <<stop_called, tvars, iovars, xvars>>

\* what _check_and_emit_default_node finds in WirePlumber
TrackerResolutions ==
    {[found |-> "lost"], [found |-> "no_props"]} \cup
    {[found |-> "node", node |-> d] : d \in TrackerDefaults}

\* DefaultSourceTracker._check_and_emit_default_node (92-154); the capturer's
\* handler _on_tracker_default_changed (92-97) runs inside the emission
CheckAndEmitDefaultNode ==
    /\ tracker_connected
    /\ Len(cap_queue) < MaxQueue
    /\ \E res \in TrackerResolutions :
         LET emitted ==
               IF res.found = "lost"
               THEN IF _default_node_props # None
                    THEN <<[gst_id |-> "", pw_serial |-> "-1"]>> ELSE <<>>
               ELSE IF res.found = "no_props" THEN <<>>
               ELSE IF _default_node_props # res.node THEN <<res.node>>
               ELSE <<>>
         IN /\ _default_node_props' =
                  IF res.found = "lost" THEN None
                  ELSE IF res.found = "no_props" THEN _default_node_props
                  ELSE res.node
            /\ cap_queue' =
                  IF emitted # <<>> /\ tracker_handlers > 0
                     /\ _follow_system_default_setting
                  THEN Append(cap_queue,
                              MoveToCb(emitted[1].gst_id, emitted[1].pw_serial))
                  ELSE cap_queue
    /\ UNCHANGED <<cfields, csub, cset, tracker_connected, chist>>
    /\ UNCHANGED <<stop_called, tvars, iovars, xvars>>

\* start (280-299) and stop (301-308) as called by the window
Start ==
    /\ settings_handlers
    /\ Len(cap_queue) < MaxQueue
    /\ cap_queue' = Append(cap_queue, DoStartCb)
    /\ stop_called' = FALSE
    /\ UNCHANGED <<cfields, csub, cset, ctrk, chist>>
    /\ UNCHANGED <<tvars, iovars, xvars>>

Stop ==
    /\ settings_handlers
    /\ Len(cap_queue) < MaxQueue
    /\ cap_queue' = Append(cap_queue, DoStopCb)
    /\ stop_called' = TRUE
    /\ UNCHANGED <<cfields, csub, cset, ctrk, chist>>
    /\ UNCHANGED <<tvars, iovars, xvars>>

\* cleanup_on_destroy (346-375), called once by the owner, which then drops
\* the capturer (window.py 400-403)
CleanupOnDestroy ==
    /\ settings_handlers
    /\ Len(cap_queue) < MaxQueue
    /\ settings_handlers' = FALSE
    /\ IF _tracker_instance /\ _tracker_signal_handler_id > 0
       THEN /\ tracker_handlers' = tracker_handlers - 1
            /\ _tracker_signal_handler_id' = 0
       ELSE UNCHANGED <<tracker_handlers, _tracker_signal_handler_id>>
    /\ _tracker_instance' = FALSE
    /\ cap_queue' = IF pipeline # None
                    THEN cap_queue \o <<DoStopCb, CleanupCb>> ELSE cap_queue
    /\ stop_called' = (pipeline # None \/ stop_called)
    /\ UNCHANGED <<cfields, settings, _target_device_id,
                   _follow_system_default_setting, ctrk, chist>>
    /\ UNCHANGED <<tvars, iovars, xvars>>

\* the idle source added at line 373: _cleanup_pipeline_sync (100-107)
RunCleanup ==
    /\ cap_queue # <<>>
    /\ CHead.kind = "cleanup"
    /\ LET c == CleanupPipelineSync([pipeline |-> pipeline,
                                     appsink |-> appsink,
                                     n_alive |-> n_alive]) IN
         /\ pipeline' = c.pipeline
         /\ appsink' = c.appsink
         /\ n_alive' = c.n_alive
    /\ cap_queue' = CRest
    /\ last_run' = OtherRun
    /\ UNCHANGED <<_current_gst_id, _current_pw_serial,
                   _is_following_system_default, csub, cset, ctrk, max_alive>>
    /\ UNCHANGED <<stop_called, tvars, iovars, xvars>>

\* _update_tracker_and_pipeline_from_settings: the subscription is brought in
\* line with the follow setting, then the pipeline is rebuilt from the
\* settings, in tracker context when following
UpdateTrackerAndPipelineFromSettings ==
    /\ cap_queue # <<>>
    /\ CHead.kind = "update"
    /\ LET m == ManageTrackerSubscription IN
         /\ _tracker_instance' = m.inst
         /\ _tracker_signal_handler_id' = m.hid
         /\ tracker_handlers' = m.handlers
         /\ RebuildPipelineFromSettings(_follow_system_default_setting, m.inst,
                                        CRest \o m.added)
    /\ UNCHANGED <<cset, ctrk>>
    /\ UNCHANGED <<stop_called, tvars, iovars, xvars>>

\* the idle source added at line 77
RunRebuild ==
    /\ cap_queue # <<>>
    /\ CHead.kind = "rebuild"
    /\ RebuildPipelineFromSettings(CHead.is_tracker_context, _tracker_instance,
                                   CRest)
    /\ UNCHANGED <<csub, cset, ctrk>>
    /\ UNCHANGED <<stop_called, tvars, iovars, xvars>>

\* move_to (310-341) itself only schedules _do_move
MoveTo ==
    /\ cap_queue # <<>>
    /\ CHead.kind = "move_to"
    /\ cap_queue' = Append(CRest, DoMoveCb(CHead.gst_id, CHead.pw_serial))
    /\ last_run' = OtherRun
    /\ UNCHANGED <<cfields, csub, cset, ctrk, n_alive, max_alive>>
    /\ UNCHANGED <<stop_called, tvars, iovars, xvars>>

\* _do_move (314-339)
DoMove ==
    /\ cap_queue # <<>>
    /\ CHead.kind = "do_move"
    /\ IF ~MoveGuard
       THEN /\ cap_queue' = CRest
            /\ last_run' = IgnoredMoveRun
            /\ UNCHANGED <<cfields, n_alive, max_alive>>
       ELSE LET is_playing == IsPlaying IN
            \E outcome \in BuildOutcomes,
               listing \in ListingsSeen(_target_device_id, TRUE) :
              /\ BuildPipeline(_target_device_id, TRUE, CHead.gst_id,
                               CHead.pw_serial, CHead.pw_serial, outcome,
                               listing)
              /\ cap_queue' = IF RestartAfterBuild(outcome = "ok", is_playing)
                              THEN Append(CRest, DoStartCb) ELSE CRest
              /\ last_run' = BuildRun(outcome = "ok", pipeline # None,
                     IF outcome = "ok" THEN BuildSignals(outcome)
                     ELSE Append(BuildSignals(outcome), "error"),
                     RestartAfterBuild(outcome = "ok", is_playing))
    /\ UNCHANGED <<csub, cset, ctrk>>
    /\ UNCHANGED <<stop_called, tvars, iovars, xvars>>

\* _do_start (281-298)
DoStart ==
    /\ cap_queue # <<>>
    /\ CHead.kind = "do_start"
    /\ IF pipeline = None \/ pipeline.state = "PLAYING"
       THEN UNCHANGED pipeline
       ELSE \/ pipeline' = [pipeline EXCEPT !.state = "PLAYING"]
            \/ UNCHANGED pipeline
    /\ cap_queue' = CRest
    /\ last_run' = OtherRun
    /\ UNCHANGED <<appsink, _current_gst_id, _current_pw_serial,
                   _is_following_system_default, csub, cset, ctrk, n_alive,
                   max_alive>>
    /\ UNCHANGED <<stop_called, tvars, iovars, xvars>>

\* _do_stop (302-307)
DoStop ==
    /\ cap_queue # <<>>
    /\ CHead.kind = "do_stop"
    /\ pipeline' = IF pipeline = None THEN pipeline
                   ELSE [pipeline EXCEPT !.state = "NULL"]
    /\ cap_queue' = CRest
    /\ last_run' = OtherRun
    /\ UNCHANGED <<appsink, _current_gst_id, _current_pw_serial,
                   _is_following_system_default, csub, cset, ctrk, n_alive,
                   max_alive>>
    /\ UNCHANGED <<stop_called, tvars, iovars, xvars>>

\* the GLib main loop runs the oldest idle source of the capturer
CMainLoop ==
    \/ UpdateTrackerAndPipelineFromSettings \/ RunRebuild \/ MoveTo \/ DoMove
    \/ DoStart \/ DoStop \/ RunCleanup

CInit ==
    /\ CInitVars
    /\ XIdleVars
    /\ TInitVars
    /\ file_paths = <<>>
    /\ IOInitVars
    /\ fs = [p \in Paths |-> NoFile]
CNext ==
    \/ SettingsChanged \/ CheckAndEmitDefaultNode \/ Start \/ Stop
    \/ CleanupOnDestroy \/ CMainLoop
SpecC == CInit /\ [][CNext]_vars

\* ------------------------------------- _build_pipeline (109-225) alone

\* the tracker identifiers a caller can pass: none, the empty identifier of a
\* lost default, the "error" sentinel of line 127, an object path
TrackerIds == {PyNone, "", "error", "pw:1"}
SerialOf(tid) == IF tid = "pw:1" THEN "1" ELSE IF tid = "" THEN "-1" ELSE PyNone

\* the arguments of one call and the listing get_input_devices() gave it
BuildArgs(target, follow, tid, listing, outcome) ==
    [target_gst_id_from_setting |-> target,
     follow_default_from_setting |-> follow, tracker_gst_id |-> tid,
     listing |-> listing, gst |-> outcome]

\* what the call did: the source element it chose and the properties it set
\* (125-178), the value it returned, the signals it emitted
BuildRet(sel, outcome) ==
    [source_element_name |-> sel.name, source_properties |-> sel.prop,
     ok |-> outcome = "ok", signals |-> BuildSignals(outcome)]

BInit ==
    /\ CInitVars
    /\ ~tracker_connected
    /\ XIdleVars
    /\ TInitVars
    /\ file_paths = <<>>
    /\ IOInitVars
    /\ fs = [p \in Paths |-> NoFile]

\* _build_pipeline is called on whatever the capturer holds
BuildCall ==
    /\ \E target \in TargetIds, follow \in BOOLEAN, tid \in TrackerIds,
          outcome \in BuildOutcomes :
         \E listing \in ListingsSeen(target, follow) :
           /\ BuildPipeline(target, follow, tid, SerialOf(tid),
                            _current_pw_serial, outcome, listing)
           /\ build_args' = BuildArgs(target, follow, tid, listing, outcome)
           /\ build_ret' = BuildRet(SelectSource(target, follow, tid, listing),
                                    outcome)
    /\ UNCHANGED <<csub, cset, ctrk, cap_queue, last_run, stop_called>>
    /\ UNCHANGED <<tvars, iovars, wvars, dvars, yvars>>

BNext == BuildCall
SpecB == BInit /\ [][BNext]_vars

\* ------------------------------- DefaultSourceTracker (wp_default_tracker)

\* the Audio/Source nodes of the system by node name, and the object path and
\* serial in the properties of each (128-133)
WpNodes == {"mic1", "mic2"}
NodeProps(n) ==
    IF n = "mic1" THEN [gst_id |-> "pw:1", pw_serial |-> "1"]
    ELSE [gst_id |-> "pw:2", pw_serial |-> "2"]

\* line 20: a new instance reads the class attribute, an empty dict
ClassDefaultNodeProps == None

\* line 169
InstanceAfterStopKept == _instance
InstanceAfterStop == 0

\* the result of one run of _check_and_emit_default_node
CheckRun(outcome, emitted) == [outcome |-> outcome, emitted |-> emitted]
LostDefault == [gst_id |-> "", pw_serial |-> "-1"]

\* no instance exists (16-20); the system may have a default source
WInitVars ==
    /\ _instance = 0
    /\ instances_made = 0
    /\ setup_handler = FALSE
    /\ metadata_handler = FALSE
    /\ wp_metadata = FALSE
    /\ wp_default \in WpNodes \cup {PyNone}
    /\ wp_nodes = {}
    /\ objects_vanished = FALSE
    /\ trk_idle = <<>>
    /\ last_check = None
    /\ last_got = 0
    /\ last_emitted = None

WInit ==
    /\ WInitVars
    /\ CIdleVars
    /\ BIdleVars
    /\ DIdleVars
    /\ YIdleVars
    /\ TInitVars
    /\ file_paths = <<>>
    /\ IOInitVars
    /\ fs = [p \in Paths |-> NoFile]

wframe == <<tvars, iovars, cfields, csub, cset, cap_queue, chist, stop_called,
           bvars, dvars,
           yvars>>

\* get_instance (156-160); when the class slot is empty, __new__ (22-26) and
\* __init__ (28-64) run: the connection is attempted, the object manager is
\* installed with the initial-setup handler on objects-changed
GetInstance ==
    /\ IF _instance # 0
       THEN /\ last_got' = _instance
            /\ UNCHANGED last_emitted
            /\ UNCHANGED <<_instance, instances_made, tracker_connected,
                           setup_handler, metadata_handler, wp_metadata,
                           wp_nodes, objects_vanished, _default_node_props>>
       ELSE /\ instances_made < MaxInstances
            /\ instances_made' = instances_made + 1
            /\ _instance' = instances_made'
            /\ last_got' = _instance'
            /\ last_emitted' = None
            /\ _default_node_props' = ClassDefaultNodeProps
            /\ metadata_handler' = FALSE
            /\ wp_metadata' = FALSE
            /\ wp_nodes' = {}
            /\ objects_vanished' = FALSE
            /\ \E connected \in BOOLEAN :
                  /\ tracker_connected' = connected
                  /\ setup_handler' = connected
    /\ UNCHANGED <<wp_default, trk_idle, last_check>>
    /\ UNCHANGED wframe

\* stop (162-170) on the instance the class holds
StopTracker ==
    /\ _instance # 0
    /\ tracker_connected' = FALSE
    /\ _instance' = InstanceAfterStop
    /\ setup_handler' = FALSE
    /\ metadata_handler' = FALSE
    /\ wp_metadata' = FALSE
    /\ wp_nodes' = {}
    /\ objects_vanished' = (objects_vanished \/ wp_metadata \/ wp_nodes # {})
    /\ UNCHANGED <<instances_made, _default_node_props, wp_default, trk_idle,
                   last_check, last_got, last_emitted>>
    /\ UNCHANGED wframe

\* the object manager reports a change of the objects it sees: the "default"
\* metadata object and the source nodes appear or vanish, in any grouping;
\* _on_objects_changed_initial_setup (66-79) runs while it is connected
ObjectsChanged ==
    /\ tracker_connected
    /\ \E m \in BOOLEAN, ns \in SUBSET WpNodes :
         /\ <<m, ns>> # <<wp_metadata, wp_nodes>>
         /\ wp_metadata' = m
         /\ wp_nodes' = ns
         /\ objects_vanished' =
               (objects_vanished \/ (wp_metadata /\ ~m)
                \/ ~(wp_nodes \subseteq ns))
         /\ IF setup_handler /\ m
            THEN /\ Len(trk_idle) < MaxIdle
                 /\ setup_handler' = FALSE
                 /\ metadata_handler' = TRUE
                 /\ trk_idle' = Append(trk_idle, _instance)
            ELSE /\ metadata_handler' = (metadata_handler /\ m)
                 /\ UNCHANGED <<setup_handler, trk_idle>>
    /\ UNCHANGED <<_instance, instances_made, tracker_connected,
                   _default_node_props, wp_default, last_check, last_got,
                   last_emitted>>
    /\ UNCHANGED wframe

\* the system's default source changes; _on_default_metadata_changed (82-89)
\* runs when it is connected to the metadata object
MetadataChanged ==
    /\ \E n \in (WpNodes \cup {PyNone}) \ {wp_default} : wp_default' = n
    /\ IF metadata_handler
       THEN /\ Len(trk_idle) < MaxIdle
            /\ trk_idle' = Append(trk_idle, _instance)
       ELSE UNCHANGED trk_idle
    /\ UNCHANGED <<_instance, instances_made, tracker_connected,
                   _default_node_props, setup_handler, metadata_handler,
                   wp_metadata, wp_nodes, objects_vanished, last_check,
                   last_got, last_emitted>>
    /\ UNCHANGED wframe

\* line 93: the check returns at once when the instance has no connected
\* core of its own, which is the case for every instance that was stopped
CheckSkippedSharedCore(inst) == ~tracker_connected
CheckSkipped(inst) == inst # _instance \/ ~tracker_connected
\* lines 136-137: the resolved pair differs from the last known default
DefaultChangedAlways(props, new) == TRUE
DefaultChanged(props, new) == props # new

\* _check_and_emit_default_node (92-154) run by the main loop, for the
\* instance that scheduled it
RunCheck ==
    /\ trk_idle # <<>>
    /\ trk_idle' = Tail(trk_idle)
    /\ LET had == _default_node_props # None IN
       CASE CheckSkipped(Head(trk_idle)) ->
              /\ last_check' = CheckRun("not_connected", None)
              /\ UNCHANGED _default_node_props
         [] OTHER ->
            CASE ~wp_metadata ->
                   /\ last_check' = CheckRun("no_metadata", None)
                   /\ UNCHANGED _default_node_props
              [] wp_metadata /\ wp_default = PyNone ->
                   /\ last_check' = CheckRun("no_name",
                          IF had THEN LostDefault ELSE None)
                   /\ _default_node_props' = None
              [] wp_metadata /\ wp_default # PyNone
                   /\ wp_default \notin wp_nodes ->
                   /\ last_check' = CheckRun("no_node",
                          IF had THEN LostDefault ELSE None)
                   /\ _default_node_props' = None
              [] OTHER ->
                   /\ last_check' = CheckRun("node",
                          IF DefaultChanged(_default_node_props,
                                            NodeProps(wp_default))
                          THEN NodeProps(wp_default) ELSE None)
                   /\ _default_node_props' = NodeProps(wp_default)
    /\ last_emitted' = IF last_check'.emitted # None
                       THEN last_check'.emitted ELSE last_emitted
    /\ UNCHANGED <<_instance, instances_made, tracker_connected, setup_handler,
                   metadata_handler, wenv, last_got>>
    /\ UNCHANGED wframe

WNext ==
    GetInstance \/ StopTracker \/ ObjectsChanged \/ MetadataChanged \/ RunCheck
SpecW == WInit /\ [][WNext]_vars
\* the main loop runs every idle source it holds
FairSpecW == SpecW /\ WF_vars(RunCheck)

\* ------------------------------------ get_input_devices (device_utils)

\* display names and device.id values the monitor reports, and the keywords
\* each contains once lower-cased (79-85, 102)
DisplayNames == {"System Default", "ALSA Card", "Monitor of Pulse Sink"}
DeviceIds == {PyNone, "usb", "pw:7", "pipewire-default", "System Default"}
DeviceApiProps == {PyNone, "pipewire", "jack"}
Mentions(str) ==
    CASE str = "ALSA Card" -> {"alsa"}
      [] str = "Monitor of Pulse Sink" -> {"monitor", "pulse"}
      [] str = "pw:7" -> {"pw"}
      [] OTHER -> {}

GstDevices == [name : DisplayNames, id : DeviceIds, api : DeviceApiProps]
RECURSIVE SeqsUpTo(_, _)
SeqsUpTo(S, n) ==
    IF n = 0 THEN {<<>>}
    ELSE LET shorter == SeqsUpTo(S, n - 1) IN
         shorter \cup {Append(q, x) : q \in {r \in shorter : Len(r) = n - 1},
                                      x \in S}
\* monitor.start() fails, or get_devices() returns some devices or none
MonitorAnswers ==
    {[started |-> FALSE, devices |-> <<>>]} \cup
    {[started |-> TRUE, devices |-> ds] : ds \in SeqsUpTo(GstDevices, MaxDevices)}

AudioInputDevice(id, name, api, device_type, gst_plugin_name) ==
    [id |-> id, name |-> name, api |-> api, device_type |-> device_type,
     pw_serial |-> PyNone, gst_plugin_name |-> gst_plugin_name]
SystemDefaultEntry ==
    AudioInputDevice("", "System Default", "default", "default", "autoaudiosrc")
PipewireDefaultEntry ==
    AudioInputDevice("pipewire-default", "Default PipeWire Source", "pipewire",
                     "default", "pipewiresrc")
AlsaFallbackEntry ==
    AudioInputDevice("alsa-default", "Default ALSA Source (Fallback)", "alsa",
                     "default", "alsasrc")

\* lines 79-98: the api and the plugin of a device
PluginOfApi(api, otherwise) ==
    CASE api = "pipewire" -> "pipewiresrc"
      [] api = "alsa" -> "alsasrc"
      [] api = "pulse" -> "pulsesrc"
      [] OTHER -> otherwise
ClassifyDevice(g) ==
    LET in_name == Mentions(g.name)
        in_id == IF g.id = PyNone THEN {} ELSE Mentions(g.id)
        guess == IF "alsa" \in in_name \cup in_id THEN "alsa"
                 ELSE IF "pulse" \in in_name \cup in_id THEN "pulse"
                 ELSE IF "pipewire" \in in_name \cup in_id \/ "pw" \in in_id
                 THEN "pipewire" ELSE "unknown"
        guessed == PluginOfApi(guess, PyNone)
    IN IF g.api # PyNone
       THEN [api |-> g.api, plugin |-> PluginOfApi(g.api, guessed)]
       ELSE [api |-> guess, plugin |-> guessed]

\* lines 69-127: the entry made for one device of the monitor
RealDevice(g) ==
    AudioInputDevice(g.id, g.name, ClassifyDevice(g).api,
                     IF "monitor" \in Mentions(g.name) THEN "monitor"
                     ELSE "physical",
                     ClassifyDevice(g).plugin)

\* lines 38-59 precede 120: the synthetic entries are appended first
AppendOrderRealFirst(synthetic, real) == real \o synthetic
AppendOrder(synthetic, real) == synthetic \o real

\* lines 135-143: the first entry of each lookup key is kept
LookupKey(dev) == IF dev.device_type = "default" THEN dev.name ELSE dev.id
UniqueDevicesKeepAll(devices) == devices
UniqueDevices(devices) ==
    LET keep == {i \in 1..Len(devices) :
                    \A j \in 1..(i - 1) :
                        LookupKey(devices[j]) # LookupKey(devices[i])}
        F[i \in 0..Len(devices)] ==
            IF i = 0 THEN <<>>
            ELSE IF i \in keep THEN Append(F[i - 1], devices[i]) ELSE F[i - 1]
    IN F[Len(devices)]

\* get_input_devices (29-145) for one answer of the device monitor
GetInputDevices(mon) ==
    IF ~mon.started
    THEN Append(AppendOrder(<<SystemDefaultEntry, PipewireDefaultEntry>>, <<>>),
                AlsaFallbackEntry)
    ELSE UniqueDevices(
             AppendOrder(<<SystemDefaultEntry, PipewireDefaultEntry>>,
                         [i \in 1..Len(mon.devices) |->
                             RealDevice(mon.devices[i])]))

DInit ==
    /\ monitor_in \in MonitorAnswers
    /\ devices_ret = None
    /\ CIdleVars
    /\ BIdleVars
    /\ WIdleVars
    /\ YIdleVars
    /\ TInitVars
    /\ file_paths = <<>>
    /\ IOInitVars
    /\ fs = [p \in Paths |-> NoFile]

GetInputDevicesCall ==
    /\ devices_ret = None
    /\ devices_ret' = GetInputDevices(monitor_in)
    /\ UNCHANGED <<monitor_in, tvars, iovars, cvars, bvars, wvars, yvars>>

DNext == GetInputDevicesCall
SpecD == DInit /\ [][DNext]_vars

\* ------------------------------------------------ claims: transcriber

AllScheduled == delivered \o idle_queue
IsCompletion(c) == c.kind = "completion"
Completions == SelectSeq(AllScheduled, IsCompletion)
DeliveredCompletions == SelectSeq(delivered, IsCompletion)
CompletionStatuses == {"completed", "completed_save_failed", "cancelled",
                       "error", "no_files"}
PrepFailed == prep_outcome \in {"ModelNotAvailableError", "Exception", "load_error"}
RecordsWritten == {p \in Paths : fs[p].exists}

\* C1: on every path the claim lists (the thread reaches its end, or there
\* were no files) the completion callback is scheduled exactly once, never
\* more, with a status of the contract.
C1_ExactlyOneCompletion ==
    /\ Len(Completions) <= 1
    /\ t_pc = "done" => Len(Completions) = 1
    /\ \A i \in 1..Len(Completions) : Completions[i].status \in CompletionStatuses

\* C2: a segment the model yields after the cancellation flag was set is
\* never passed to the segment callback, and once such a segment has been
\* taken the completion callback is eventually delivered with status
\* cancelled.
C2_LateSegment == t_pc = "check_segment" /\ cur_segment \in late_segments
C2_CancelledDelivered ==
    \E i \in 1..Len(delivered) :
        IsCompletion(delivered[i]) /\ delivered[i].status = "cancelled"
C2_NoLateSegmentPassed ==
    \A i \in 1..Len(AllScheduled) :
        AllScheduled[i].kind = "segment" =>
            AllScheduled[i].segment \notin late_segments
C2_CancelMidFile ==
    /\ [](C2_NoLateSegmentPassed)
    /\ (C2_LateSegment ~> C2_CancelledDelivered)
C2_Witness ==
    /\ late_segments # {}
    /\ C2_CancelledDelivered
    /\ \E i \in 1..Len(delivered) : delivered[i].kind = "segment"

\* C3: when the model raises while transcribing file k, model.transcribe is
\* never called for a later file and the run ends with exactly one
\* completion, of status error.
C3_TranscribeErrorStopsBatch ==
    raised_at # 0 =>
        /\ \A i \in 1..Len(transcribe_calls) : transcribe_calls[i] <= raised_at
        /\ Len(Completions) <= 1
        /\ t_pc = "done" =>
              /\ Len(Completions) = 1
              /\ Completions[1].status = "error"
C3_Witness ==
    /\ raised_at = 1
    /\ Len(file_paths) = 2
    /\ Len(DeliveredCompletions) = 1
    /\ current_file_segments # <<>>

\* C4: when model preparation fails (ensure_cached raises, or the model
\* cannot be loaded) no file is passed to model.transcribe, no record is
\* written, and every completion of the run carries status error, one at
\* least being scheduled by the end.
C4_PrepFailureIsFatal ==
    PrepFailed =>
        /\ transcribe_calls = <<>>
        /\ RecordsWritten = {}
        /\ io_calls = 0
        /\ \A i \in 1..Len(Completions) : Completions[i].status = "error"
        /\ t_pc = "done" => Len(Completions) >= 1
C4_Witness ==
    /\ prep_outcome = "load_error"
    /\ Len(file_paths) = 2
    /\ DeliveredCompletions # <<>>

\* C5 as claimed: once atomic_write_json has raised for a file, the run's
\* completion has status completed_save_failed, carries the save failure as
\* its message and no saved path of that file.
C5_SaveFailedStatus ==
    save_failed # {} =>
        \A i \in 1..Len(Completions) :
            /\ Completions[i].status = "completed_save_failed"
            /\ Completions[i].err = "save_err"

\* C5 amended: once atomic_write_json has raised for a file, the run's
\* completion never has status completed; it has completed_save_failed with
\* the save failure as its message, unless a later file raised during
\* transcription (error) or the cancellation flag was seen at a later file
\* (cancelled); the saved path it carries is None or the record of a file
\* whose save succeeded.
C5_SaveFailedStatusAmended ==
    save_failed # {} =>
        \A i \in 1..Len(Completions) :
            LET c == Completions[i] IN
            /\ c.status \in {"completed_save_failed", "error", "cancelled"}
            /\ c.status = "completed_save_failed" => c.err = "save_err"
            /\ c.status = "error" =>
                  \A k \in save_failed : raised_at > k
            /\ c.status = "cancelled" => cancellation_token
            /\ (raised_at = 0 /\ ~cancellation_token) =>
                  c.status = "completed_save_failed"
            /\ c.path # None =>
                  /\ fs[c.path].exists
                  /\ \E k \in 1..Len(file_paths) :
                        /\ k \notin save_failed
                        /\ fs[c.path].content[1][1].source_path = file_paths[k]
C5_Witness ==
    /\ save_failed = {2}
    /\ Len(DeliveredCompletions) = 1
    /\ DeliveredCompletions[1].status = "completed_save_failed"
    /\ DeliveredCompletions[1].path # None

\* ------------------------------------------- claims: atomic_write_json

IOComplete(f) ==
    \/ f = NoFile
    \/ \E d \in IOData \cup {IOOldData} : f = File(Serialize(d))

\* C6: from the call of atomic_write_json on, through every step, failure,
\* process crash and power loss, the target holds the complete content it
\* had when the call began (or is absent as it was) or the complete new
\* content, never part of one.
C6_TargetOldOrNew ==
    io_pc # "idle" =>
        /\ IOComplete(old_content)
        /\ fs[io_target] \in {old_content, File(Serialize(io_data))}
C6_Witness ==
    /\ io_pc = "crashed"
    /\ tmp_file.exists
    /\ Len(tmp_file.content) \in 1..(NChunks - 1)
    /\ old_content.exists
    /\ fs[io_target] = old_content

\* ----------------------------------------------- claims: AudioCapturer

\* C7: over every sequence of builds, settings-driven rebuilds and moves at
\* most one pipeline is alive at any time, the one the capturer holds: the
\* previous one has been set to NULL and dropped before a new one is created.
C7_AtMostOnePipeline ==
    /\ n_alive <= 1
    /\ max_alive <= 1
    /\ (n_alive = 1) <=> (pipeline # None)
C7_Witness ==
    /\ last_run # None
    /\ last_run.did = "build"
    /\ last_run.replaced
    /\ last_run.ok
    /\ pipeline # None
    /\ pipeline.prop = <<"path", "pw:2">>
    /\ _target_device_id = "usb"
    /\ max_alive = 1
    /\ n_alive = 1

\* C8: _do_move run while the follow-system-default setting is false changes
\* neither the pipeline object, its state, the appsink, _current_gst_id,
\* _current_pw_serial nor _is_following_system_default.
C8_MoveToIgnored ==
    [][(/\ cap_queue # <<>>
        /\ CHead.kind = "do_move"
        /\ ~_follow_system_default_setting
        /\ cap_queue' = CRest)
       => UNCHANGED <<pipeline, appsink, _current_gst_id, _current_pw_serial,
                      _is_following_system_default>>]_vars
C8_Witness ==
    /\ last_run = IgnoredMoveRun
    /\ ~_follow_system_default_setting
    /\ IsPlaying
    /\ pipeline.source # "pipewiresrc"

\* C9: once every queued idle callback has run, the source of a built
\* pipeline is the one the build algorithm yields for the current settings
\* and the tracker's latest default; with follow-default off it is not bound
\* to an identifier the tracker provided.
LatestDefaultId ==
    IF _default_node_props # None THEN _default_node_props.gst_id ELSE PyNone
C9_BoundSourceIsCurrent ==
    (cap_queue = <<>> /\ pipeline # None /\ pipeline.linked) =>
        /\ \E listing \in ListingsSeen(_target_device_id,
                                       _follow_system_default_setting) :
              LET sel == SelectSource(_target_device_id,
                                      _follow_system_default_setting,
                                      LatestDefaultId, listing)
              IN pipeline.source = sel.name /\ pipeline.prop = sel.prop
        /\ ~_follow_system_default_setting =>
              \A d \in TrackerDefaults : pipeline.prop # <<"path", d.gst_id>>

\* C10: whenever _build_pipeline has failed, it has emitted an error signal
\* and the capturer is left holding no pipeline and no appsink.
C10_FailedBuildHoldsNothing ==
    (last_run # None /\ last_run.did = "build" /\ ~last_run.ok) =>
        /\ last_run.signals # <<>>
        /\ \A i \in 1..Len(last_run.signals) : last_run.signals[i] = "error"
        /\ pipeline = None
        /\ appsink = PyNone

\* C11: a run of _rebuild_pipeline_from_settings or of _do_move that builds
\* leaves one more _do_start scheduled exactly when the pipeline was PLAYING
\* as the run began and the build succeeded; otherwise it schedules none.
NStarts(q) == Cardinality({i \in 1..Len(q) : q[i] = DoStartCb})
C11_RestartIffWasPlaying ==
    [][((UpdateTrackerAndPipelineFromSettings \/ RunRebuild \/ DoMove)
        /\ last_run'.did = "build")
       => /\ (IsPlaying /\ last_run'.ok) =>
                /\ NStarts(cap_queue') = NStarts(cap_queue) + 1
                /\ cap_queue'[Len(cap_queue')] = DoStartCb
                /\ pipeline'.state = "NULL"
          /\ ~(IsPlaying /\ last_run'.ok) =>
                NStarts(cap_queue') = NStarts(cap_queue)]_vars
C11_Witness ==
    /\ last_run # None
    /\ last_run.did = "build"
    /\ last_run.started
    /\ pipeline # None
    /\ pipeline.prop = <<"path", "pw:1">>
    /\ cap_queue = <<DoStartCb>>

\* ------------------------------------------ claims: _build_pipeline

FollowNoTrackerId ==
    /\ build_args # None
    /\ build_args.follow_default_from_setting
    /\ build_args.tracker_gst_id \in {PyNone, ""}

\* C12 as stated: a build in follow-default mode that is given no tracker
\* identifier (None or empty) chooses autoaudiosrc whatever the stored device
\* id is, and ends without an error when GStreamer makes and links the elements
C12_FollowNoTrackerIsAuto ==
    FollowNoTrackerId =>
        /\ build_ret.source_element_name = "autoaudiosrc"
        /\ build_args.gst = "ok" =>
              build_ret.ok /\ build_ret.signals = <<"source-changed">>

\* C12 amended: such a build chooses pipewiresrc with no properties when the
\* stored device id is "pipewire-default" and autoaudiosrc for every other
\* stored id; it ends without an error when GStreamer makes and links the
\* elements
C12_FollowNoTrackerFallback ==
    FollowNoTrackerId =>
        /\ build_args.target_gst_id_from_setting = "pipewire-default" =>
              /\ build_ret.source_element_name = "pipewiresrc"
              /\ build_ret.source_properties = None
        /\ build_args.target_gst_id_from_setting # "pipewire-default" =>
              build_ret.source_element_name = "autoaudiosrc"
        /\ build_args.gst = "ok" =>
              build_ret.ok /\ build_ret.signals = <<"source-changed">>

C12_Witness ==
    /\ FollowNoTrackerId
    /\ build_args.tracker_gst_id = ""
    /\ build_args.target_gst_id_from_setting = "pipewire-default"
    /\ build_ret.source_element_name = "pipewiresrc"
    /\ build_ret.ok
    /\ pipeline # None
    /\ pipeline.source = "pipewiresrc"

\* the stored id is set, the mode is specific-device, no listed device has it
SpecificIdAbsent ==
    /\ build_args # None
    /\ ~build_args.follow_default_from_setting
    /\ build_args.target_gst_id_from_setting \notin {PyNone, ""}
    /\ FindDevice(build_args.listing,
                  build_args.target_gst_id_from_setting) = None

\* the signals of __gsignals__ (19-25) carry a source description, an error
\* message and audio data; a warning is an emission of any other signal
Warnings(signals) ==
    {i \in 1..Len(signals) :
        signals[i] \notin {"source-changed", "error", "data-ready"}}

\* C13: a build in specific-device mode whose device id is absent from the
\* listing of get_input_devices() chooses autoaudiosrc, emits exactly one
\* device-resolution warning, and does not fail when GStreamer makes and
\* links the elements
C13_AbsentDeviceWarnsOnce ==
    SpecificIdAbsent =>
        /\ build_ret.source_element_name = "autoaudiosrc"
        /\ Cardinality(Warnings(build_ret.signals)) = 1
        /\ build_args.gst = "ok" => build_ret.ok

\* the devices of the listing of a call that carry the stored id
Listed == {build_args.listing[i] : i \in
              {j \in 1..Len(build_args.listing) :
                  build_args.listing[j].id =
                      build_args.target_gst_id_from_setting}}
TrackerIdGiven == build_args.tracker_gst_id \notin {PyNone, "", "error"}
Chose(name, prop) ==
    /\ build_ret.source_element_name = name
    /\ build_ret.source_properties = prop
BoundTo(plugin, id) ==
    IF plugin = "pipewiresrc" THEN <<"path", id>> ELSE <<"device", id>>

\* the three follow-default rows and the row of an unset id, shared by the
\* stated and the amended table
TableRows1236 ==
    LET a == build_args IN
    /\ (a.follow_default_from_setting /\ TrackerIdGiven) =>
          Chose("pipewiresrc", <<"path", a.tracker_gst_id>>)
    /\ (a.follow_default_from_setting /\ ~TrackerIdGiven
          /\ a.target_gst_id_from_setting = "pipewire-default") =>
          Chose("pipewiresrc", None)
    /\ (a.follow_default_from_setting /\ ~TrackerIdGiven
          /\ a.target_gst_id_from_setting # "pipewire-default") =>
          Chose("autoaudiosrc", None)
    /\ (~a.follow_default_from_setting
          /\ a.target_gst_id_from_setting \in {PyNone, ""}) =>
          Chose("autoaudiosrc", None)

\* C14 as stated: every call of _build_pipeline chooses its source by the six
\* rules: follow and a tracker id, pipewiresrc bound to that id; follow, no
\* tracker id, stored id pipewire-default, pipewiresrc with no id; follow and
\* neither, autoaudiosrc; a stored id found in the listing, that device's
\* gst_plugin_name bound to its id; a stored id not found, autoaudiosrc; no
\* stored id and not following, autoaudiosrc
C14_SixRuleTable ==
    build_args # None =>
        LET a == build_args IN
        /\ TableRows1236
        /\ (~a.follow_default_from_setting
              /\ a.target_gst_id_from_setting \notin {PyNone, ""}) =>
              /\ \A d \in Listed :
                    Chose(d.gst_plugin_name, BoundTo(d.gst_plugin_name, d.id))
              /\ Listed = {} => Chose("autoaudiosrc", None)

\* C14 amended: as the six rules, but a stored id found in the listing selects
\* that device's gst_plugin_name bound to its id only when the device has a
\* plugin name; a found device without one selects autoaudiosrc like a device
\* that is not found
C14_SixRuleTableAmended ==
    build_args # None =>
        LET a == build_args IN
        /\ TableRows1236
        /\ (~a.follow_default_from_setting
              /\ a.target_gst_id_from_setting \notin {PyNone, ""}) =>
              /\ \A d \in Listed :
                    IF d.gst_plugin_name # PyNone
                    THEN Chose(d.gst_plugin_name,
                               BoundTo(d.gst_plugin_name, d.id))
                    ELSE Chose("autoaudiosrc", None)
              /\ Listed = {} => Chose("autoaudiosrc", None)

C14_Witness ==
    /\ build_args # None
    /\ ~build_args.follow_default_from_setting
    /\ build_args.target_gst_id_from_setting = "usb"
    /\ \E d \in Listed : d.gst_plugin_name = "pulsesrc"
    /\ Chose("pulsesrc", <<"device", "usb">>)
    /\ build_ret.ok
    /\ pipeline # None
    /\ pipeline.prop = <<"device", "usb">>

\* --------------------------------------- claims: DefaultSourceTracker

\* C15: whenever a connected tracker re-resolves the default and the
\* resolution fails (the "default" metadata object is not found, no default
\* node name is set, or the named node is not found) it forgets the default it
\* remembered and, having remembered one, emits default-changed("", -1)
C15_FailedResolutionForgets ==
    [][(RunCheck
        /\ last_check'.outcome \in {"no_metadata", "no_name", "no_node"})
       => /\ _default_node_props' = None
          /\ _default_node_props # None => last_check'.emitted = LostDefault
      ]_vars

\* the connected tracker's object manager sees the metadata object and the
\* node that the metadata names as the default source
SystemDefaultIs(n) ==
    tracker_connected /\ wp_metadata /\ wp_default = n /\ n \in wp_nodes

\* C16: when objects only become visible to the connected tracker, in any
\* order, and the system's default source n is among them in the end, the
\* tracker comes to emit default-changed with the identifier and serial of n,
\* and so remembers them, with no metadata change needed afterwards
C16_DefaultEventuallyEmitted ==
    \A n \in WpNodes :
        <>[](~objects_vanished /\ SystemDefaultIs(n))
            => <>(_default_node_props = NodeProps(n))

\* C17: get_instance() returns the instance the class holds, and the class
\* holds the same instance until stop(); stop() empties the class slot and
\* disconnects; the next get_instance() then constructs an instance distinct
\* from every earlier one, which attempts the connection anew (its setup
\* handler is installed exactly when it connected) and remembers no default
C17_SingletonUntilStop ==
    [][/\ GetInstance =>
            /\ last_got' = _instance'
            /\ _instance # 0 =>
                  /\ last_got' = _instance
                  /\ UNCHANGED <<_instance, instances_made, tracker_connected,
                                 _default_node_props>>
            /\ _instance = 0 =>
                  /\ _instance' \notin 0..instances_made
                  /\ instances_made' = instances_made + 1
                  /\ setup_handler' = tracker_connected'
                  /\ _default_node_props' = None
       /\ StopTracker => (_instance' = 0 /\ ~tracker_connected')
       /\ (_instance # 0 /\ ~StopTracker) => _instance' = _instance
      ]_vars

\* the second instance, connected and with nothing remembered, after the
\* first one had emitted a default and was stopped
C17_Witness ==
    /\ _instance = 2
    /\ last_got = 2
    /\ tracker_connected
    /\ _default_node_props = None
    /\ last_check # None
    /\ last_check.outcome = "node"
    /\ last_check.emitted = NodeProps("mic1")

\* ------------------------- claims: the capturer's tracker subscription

\* C18: while the tracker is not connected it never emits default-changed
\* (nothing is remembered, no move is scheduled), and the capturer registers
\* no handler on it and keeps no reference to it; a pipeline it builds in
\* follow-default mode is bound by the fallback rules, to no tracker
\* identifier
C18_UnconnectedTrackerUnused ==
    ~tracker_connected =>
        /\ _default_node_props = None
        /\ \A i \in 1..Len(cap_queue) :
              cap_queue[i].kind \notin {"move_to", "do_move"}
        /\ tracker_handlers = 0
        /\ ~_tracker_instance
        /\ _tracker_signal_handler_id = 0
        /\ (pipeline # None /\ pipeline.linked) =>
              /\ pipeline.prop = None \/ ~_is_following_system_default
              /\ _is_following_system_default =>
                    pipeline.source \in {"autoaudiosrc", "pipewiresrc"}

C18_Witness ==
    /\ ~tracker_connected
    /\ _follow_system_default_setting
    /\ _is_following_system_default
    /\ last_run # None
    /\ last_run.did = "build"
    /\ last_run.ok
    /\ pipeline # None
    /\ pipeline.source = "autoaudiosrc"
    /\ ~_tracker_instance
    /\ tracker_handlers = 0

\* C19: whatever the follow-default toggles, the runs of
\* _manage_tracker_subscription and cleanup_on_destroy, the capturer has at
\* most one handler on the tracker, its handler id is non-zero exactly when
\* it holds a tracker reference, and that is when its handler is registered
C19_OneHandler ==
    /\ tracker_handlers <= 1
    /\ (_tracker_signal_handler_id # 0) <=> _tracker_instance
    /\ (tracker_handlers = 1) <=> _tracker_instance

\* the capturer followed the tracker's default pw:1, so it was subscribed, and
\* cleanup_on_destroy has removed the handler and the reference
C19_Witness ==
    /\ ~settings_handlers
    /\ tracker_connected
    /\ _follow_system_default_setting
    /\ _current_gst_id = "pw:1"
    /\ ~_tracker_instance
    /\ _tracker_signal_handler_id = 0
    /\ tracker_handlers = 0
    /\ cap_queue = <<>>

\* ---------------------------------------- claims: get_input_devices

IsSynthetic(dev) == dev.device_type = "default"

Triple(dev) == <<dev.id, dev.api, dev.device_type>>

\* C21: whatever devices the monitor reports (an id missing, ids or names
\* equal to those of the synthetic entries, the same id twice), no two entries
\* of the returned list have the same (id, api, device_type)
C21_TriplesDistinct ==
    devices_ret # None =>
        \A i, j \in 1..Len(devices_ret) :
            i # j => Triple(devices_ret[i]) # Triple(devices_ret[j])

\* the monitor reported the id usb twice with the same classification and
\* one entry was returned for it
C21_Witness ==
    /\ devices_ret # None
    /\ Len(monitor_in.devices) = 2
    /\ monitor_in.devices[1].id = "usb"
    /\ monitor_in.devices[2].id = "usb"
    /\ Triple(RealDevice(monitor_in.devices[1]))
           = Triple(RealDevice(monitor_in.devices[2]))
    /\ Len(devices_ret) = 3
    /\ devices_ret[3].id = "usb"

\* ============================================================ SpecR
\* models/transcript_item.py: one TranscriptItem is constructed, written with
\* to_dict()/save() and loaded back with load_from_json(); files written by
\* the transcription worker (transcriber.py 243-276) and by anything else
\* are loaded the same way.

\* str values: segment text is a sequence of characters, times are counted
\* in units of 0.0001 s, the other strings are opaque
Texts == {<<"h">>, <<" ", "h">>, <<"h", " ">>}
RECURSIVE LStrip(_)
LStrip(s) == IF s # <<>> /\ Head(s) = " " THEN LStrip(Tail(s)) ELSE s
Reverse(s) == [i \in 1..Len(s) |-> s[Len(s) + 1 - i]]
\* str.strip()
Strip(s) == Reverse(LStrip(Reverse(LStrip(s))))
\* round(x, 3); the times tried are never half-way between two thousandths
Round3(t) == ((t + 5) \div 10) * 10

\* datetime.strptime / strftime with "%Y%m%d_%H%M%S" and "%Y-%m-%d %H:%M:%S"
Instants == 1..2
FileStamps == <<"20240101_000000", "20240102_000000">>
DisplayStamps == <<"2024-01-01 00:00:00", "2024-01-02 00:00:00">>
ParsesAs(stamps, str) == \E t \in Instants : stamps[t] = str
Strptime(stamps, str) == CHOOSE t \in Instants : stamps[t] = str

\* the paths of JSON files: directory and name; "" is the empty path
NoPath == [dir |-> "", name |-> ""]
RecPaths == {[dir |-> "t", name |-> "a.json"], [dir |-> "t", name |-> "b.json"]}
\* pathlib.Path(p).name
PathName(p) == p.name
\* f"{uuid}.json"
UuidJsonName(u) == IF u = "u1" THEN "u1.json" ELSE "gen.json"
\* str(uuid.uuid4())
Uuid4 == "gen"

\* JSON values: a string, null, a number, or the key is not in the object
JStr(x) == [t |-> "str", v |-> x]
JNull == [t |-> "null"]
JNumber == [t |-> "number"]
JMissing == [t |-> "missing"]
JList(items) == [t |-> "list", items |-> items]
IsStr(j) == j.t = "str"
IsNonEmptyStr(j) == j.t = "str" /\ j.v # ""
\* a time of a segment object: a number, or no number under that key
NoTime == -1
\* the text of a segment object: a string, or None/absent
NoText == <<"None">>

\* SegmentItem.__init__ (23-39)
SegmentItem(start, end, text, speaker) ==
    [start |-> start, end |-> end, text |-> text, speaker |-> speaker]

\* the output_filename property set by __init__ (238)
OutputFilenameFromUuid(source_path, uuid) == UuidJsonName(uuid)
OutputFilename(source_path, uuid) ==
    IF source_path # NoPath THEN PathName(source_path) ELSE UuidJsonName(uuid)

\* TranscriptItem.__init__ (199-246); clock is datetime.now()
TranscriptItem(source_path, transcript_text, audio_source_path, item_uuid, timestamp_str, segments, language, clock) ==
    LET uuid == IF item_uuid \in {PyNone, ""} THEN Uuid4 ELSE item_uuid
    IN [uuid |-> uuid,
        source_path |-> source_path,
        transcript_text |-> transcript_text,
        timestamp |->
            IF timestamp_str \notin {PyNone, ""} /\ ParsesAs(FileStamps, timestamp_str)
            THEN DisplayStamps[Strptime(FileStamps, timestamp_str)]
            ELSE DisplayStamps[clock],
        output_filename |-> OutputFilename(source_path, uuid),
        segments |-> segments,
        audio_source_path |-> IF audio_source_path = PyNone THEN ""
                              ELSE audio_source_path,
        language |-> IF language = PyNone THEN "en" ELSE language]

\* one element of the 'segments' list of to_dict (275-282)
SegmentToDict(seg) ==
    [is_dict |-> TRUE, start |-> Round3(seg.start), end |-> Round3(seg.end),
     start_ms |-> NoTime, end_ms |-> NoTime, text |-> seg.text,
     speaker |-> JStr(seg.speaker)]

\* TranscriptItem.to_dict (249-287); the internal timestamp is always in the
\* display format, as __init__ leaves it
ToDict(it) ==
    [uuid |-> JStr(it.uuid),
     timestamp |-> JStr(FileStamps[Strptime(DisplayStamps, it.timestamp)]),
     text |-> JStr(it.transcript_text),
     segments |-> JList([i \in 1..Len(it.segments) |->
                            SegmentToDict(it.segments[i])]),
     language |-> JStr(it.language),
     source_path |-> JStr(it.audio_source_path),
     audio_source_path |-> JStr(it.audio_source_path),
     output_filename |-> JStr(it.output_filename)]

\* the media files given to the worker, and
\* os.path.splitext(os.path.basename(file_path))[0] (245)
MediaPaths == {"x/a.wav", "y/b.wav"}
BaseName(file_path) == IF file_path = "x/a.wav" THEN "a" ELSE "b"
\* f"{timestamp_str}_{base_name}.json" (246)
DestinationFilename(ts, base_name) ==
    CASE ts = 1 /\ base_name = "a" -> "20240101_000000_a.json"
      [] ts = 1 /\ base_name = "b" -> "20240101_000000_b.json"
      [] ts = 2 /\ base_name = "a" -> "20240102_000000_a.json"
      [] OTHER -> "20240102_000000_b.json"
EmbeddedFilename(ts, base_name) == DestinationFilename(ts, base_name)
\* os.path.join(permanent_storage_dir, destination_filename) (247)
DestinationPath(ts, base_name) ==
    [dir |-> "transcripts", name |-> DestinationFilename(ts, base_name)]
\* segment_dict (214-221) and its entry in segments_for_file (253-258)
WorkerSegment(seg) ==
    [is_dict |-> TRUE, start |-> Round3(seg.start), end |-> Round3(seg.end),
     start_ms |-> NoTime, end_ms |-> NoTime, text |-> Strip(seg.text),
     speaker |-> JStr("")]
\* final_json_data (262-271)
FinalJsonData(ts, file_path, segs, language) ==
    [uuid |-> JStr(Uuid4),
     timestamp |-> JStr(FileStamps[ts]),
     text |-> JStr("txt"),
     segments |-> JList([i \in 1..Len(segs) |-> WorkerSegment(segs[i])]),
     language |-> JStr(language),
     source_path |-> JStr(file_path),
     audio_source_path |-> JStr(file_path),
     output_filename |-> JStr(EmbeddedFilename(ts, BaseName(file_path)))]

\* the segment loop of load_from_json (134-176): the SegmentItem made of one
\* element of the list, or None when the element is skipped
LoadTime(s, ms) == IF s # NoTime THEN s ELSE IF ms # NoTime THEN ms * 10
                   ELSE NoTime
LoadSegment(seg_dict) ==
    IF ~seg_dict.is_dict \/ seg_dict.text = NoText THEN None
    ELSE IF LoadTime(seg_dict.start, seg_dict.start_ms) = NoTime
            \/ LoadTime(seg_dict.end, seg_dict.end_ms) = NoTime THEN None
    ELSE SegmentItem(LoadTime(seg_dict.start, seg_dict.start_ms),
                     LoadTime(seg_dict.end, seg_dict.end_ms),
                     Strip(seg_dict.text),
                     CASE seg_dict.speaker.t = "missing" -> ""
                       [] seg_dict.speaker.t = "str" -> seg_dict.speaker.v
                       [] seg_dict.speaker.t = "null" -> "None"
                       [] OTHER -> "0")
RECURSIVE LoadSegments(_)
LoadSegments(segments_data) ==
    IF segments_data = <<>> THEN <<>>
    ELSE LET seg == LoadSegment(Head(segments_data))
         IN (IF seg = None THEN <<>> ELSE <<seg>>)
                \o LoadSegments(Tail(segments_data))

ValueError == [raised |-> "ValueError"]
MandatoryKeys == {"uuid", "timestamp", "text", "segments", "language",
                  "output_filename"}
\* 'key not in data' for the keys of spec_mandatory_keys (91-96)
MissingKeys(data) == {k \in MandatoryKeys : data[k].t = "missing"}
\* the format validation of the timestamp (116-119)
TimestampParsesAny(j) == TRUE
TimestampParses(j) == ParsesAs(FileStamps, j.v)

\* TranscriptItem.load_from_json (61-196) of an existing file json_file_path
\* whose content is the JSON object data
LoadFromJson(json_file_path, data, clock) ==
    IF MissingKeys(data) # {} THEN ValueError
    ELSE IF data.audio_source_path.t = "missing" /\ data.source_path.t = "missing"
    THEN ValueError
    ELSE LET media == IF data.audio_source_path.t # "missing"
                      THEN data.audio_source_path ELSE data.source_path
         IN IF ~IsNonEmptyStr(data.uuid) THEN ValueError
            ELSE IF ~IsNonEmptyStr(data.timestamp) THEN ValueError
            ELSE IF ~TimestampParses(data.timestamp) THEN ValueError
            ELSE IF ~IsStr(data.text) THEN ValueError
            ELSE IF ~IsNonEmptyStr(data.language) THEN ValueError
            ELSE IF ~IsNonEmptyStr(data.output_filename) THEN ValueError
            ELSE IF data.segments.t # "list" THEN ValueError
            \* a media path that is no string is refused by the str property
            \* audio_source_path in __init__ (245, wrapped at 193-196)
            ELSE IF media.t = "number" THEN ValueError
            ELSE [raised |-> PyNone,
                  item |-> TranscriptItem(json_file_path, data.text.v,
                               IF media.t = "str" THEN media.v ELSE PyNone,
                               data.uuid.v, data.timestamp.v,
                               LoadSegments(data.segments.items),
                               data.language.v, clock)]

\* --- the inputs tried: one item or one file in each behaviour
MaxRecSegs == 2
WhisperSegments ==
    {SegmentItem(st, 18, tx, sp) : st \in {0, 12}, tx \in Texts, sp \in {""}}
ItemSegments ==
    {SegmentItem(st, 18, tx, sp) : st \in {0, 12}, tx \in Texts,
                                   sp \in {"", "S1"}}
ForeignSegmentLists ==
    {<<>>,
     <<SegmentToDict(SegmentItem(12, 18, <<"h">>, "S1"))>>,
     <<[is_dict |-> TRUE, start |-> NoTime, end |-> NoTime, start_ms |-> 1,
        end_ms |-> 2, text |-> <<" ", "h">>, speaker |-> JMissing]>>,
     <<[is_dict |-> TRUE, start |-> 0, end |-> 18, start_ms |-> NoTime,
        end_ms |-> NoTime, text |-> NoText, speaker |-> JNull],
       [is_dict |-> TRUE, start |-> 0, end |-> NoTime, start_ms |-> NoTime,
        end_ms |-> NoTime, text |-> <<"h">>, speaker |-> JNull],
       [is_dict |-> FALSE, start |-> 0, end |-> 18, start_ms |-> NoTime,
        end_ms |-> NoTime, text |-> <<"h">>, speaker |-> JNull]>>}
ForeignData ==
    [uuid : {JStr("u1"), JStr(""), JMissing},
     timestamp : {JStr(FileStamps[1]), JStr("garbage"), JMissing},
     text : {JStr("txt"), JNull, JMissing},
     segments : {JList(l) : l \in ForeignSegmentLists} \cup {JNull, JMissing},
     language : {JStr("en"), JStr(""), JMissing},
     source_path : {JStr("x/a.wav"), JMissing},
     audio_source_path : {JStr("y/b.wav"), JNull, JMissing},
     output_filename : {JStr("a.json"), JStr("b.json"), JMissing}]

rframe == <<tvars, iovars, cvars, bvars, wvars, dvars, pvars, evars, mvars>>

\* a TranscriptItem is constructed (window.py 720-725 and any other caller)
NewItem ==
    /\ rec_item = None
    /\ rec_file = None
    /\ \E source_path \in {NoPath} \cup RecPaths,
          item_uuid \in {PyNone, "u1"},
          timestamp_str \in {PyNone, FileStamps[1], "garbage"},
          language \in {PyNone, "en", ""},
          audio_source_path \in {PyNone, "x/a.wav"},
          segments \in SeqsUpTo(ItemSegments, MaxRecSegs),
          clock \in Instants :
         rec_item' = TranscriptItem(source_path, "txt", audio_source_path,
                                    item_uuid, timestamp_str, segments,
                                    language, clock)
    /\ rec_file' = None
    /\ rec_loaded' = None
    /\ rec_writer' = "none"
    /\ UNCHANGED rframe

\* TranscriptItem.save (303-321): without a source_path it raises and writes
\* nothing; the write itself is atomic_write_json, here succeeding
Save ==
    /\ rec_item # None
    /\ rec_item.source_path # NoPath
    /\ rec_file' = [path |-> rec_item.source_path, data |-> ToDict(rec_item)]
    /\ rec_loaded' = None
    /\ rec_writer' = "save"
    /\ UNCHANGED <<rec_item, rframe>>

\* transcriber.py 243-276: the worker builds and writes the record of a file
WorkerWrite ==
    /\ rec_item = None
    /\ rec_file = None
    /\ \E ts \in Instants, file_path \in MediaPaths,
          segs \in SeqsUpTo(WhisperSegments, MaxRecSegs),
          language \in {"en", "unknown"} :
         rec_file' = [path |-> DestinationPath(ts, BaseName(file_path)),
                      data |-> FinalJsonData(ts, file_path, segs, language)]
    /\ rec_item' = None
    /\ rec_loaded' = None
    /\ rec_writer' = "worker"
    /\ UNCHANGED rframe

\* a JSON object written by anything else lies in the transcripts directory
OtherWrite ==
    /\ rec_item = None
    /\ rec_file = None
    /\ \E path \in RecPaths, data \in ForeignData :
         rec_file' = [path |-> path, data |-> data]
    /\ rec_item' = None
    /\ rec_loaded' = None
    /\ rec_writer' = "other"
    /\ UNCHANGED rframe

\* TranscriptItem.load_from_json(path) of the file last written
Load ==
    /\ rec_file # None
    /\ \E clock \in Instants :
         rec_loaded' = LoadFromJson(rec_file.path, rec_file.data, clock)
    /\ UNCHANGED <<rec_item, rec_file, rec_writer, rframe>>

RInit ==
    /\ TInitVars
    /\ file_paths = <<>>
    /\ IOInitVars
    /\ fs = [p \in Paths |-> NoFile]
    /\ CIdleVars
    /\ BIdleVars
    /\ WIdleVars
    /\ DIdleVars
    /\ RIdleVars
    /\ PIdleVars
    /\ EIdleVars
    /\ MIdleVars
RNext == NewItem \/ Save \/ WorkerWrite \/ OtherWrite \/ Load
SpecR == RInit /\ [][RNext]_vars

\* ------------------------------------------------------------ claims
\* C22: writing a TranscriptItem with save() and loading the file back with
\* load_from_json() yields a record with the same uuid, the same number and
\* order of segments with start/end equal to 3 decimal places and the same
\* text and speaker, the same language and the same media path.
SameSegment(a, b) ==
    /\ Round3(a.start) = Round3(b.start)
    /\ Round3(a.end) = Round3(b.end)
    /\ a.text = b.text
    /\ a.speaker = b.speaker
SameRecord(a, b) ==
    /\ a.uuid = b.uuid
    /\ Len(a.segments) = Len(b.segments)
    /\ \A i \in 1..Len(a.segments) : SameSegment(a.segments[i], b.segments[i])
    /\ a.language = b.language
    /\ a.audio_source_path = b.audio_source_path
C22_RoundTrip ==
    (rec_writer = "save" /\ rec_loaded # None) =>
        /\ rec_loaded.raised = PyNone
        /\ SameRecord(rec_item, rec_loaded.item)
\* the same, for the items whose language is a non-empty string: the segment
\* text is what comes back changed
C22_RoundTripOfLoadable ==
    (rec_writer = "save" /\ rec_loaded # None /\ rec_item.language # "") =>
        /\ rec_loaded.raised = PyNone
        /\ SameRecord(rec_item, rec_loaded.item)

\* C23: load_from_json raises a validation error and returns no record
\* whenever one of uuid, timestamp, text, segments, language, output_filename
\* is missing, when source_path and audio_source_path are both missing, or
\* when the timestamp does not parse as %Y%m%d_%H%M%S.
KeyMissing(data) == \E k \in MandatoryKeys : data[k] = JMissing
MediaMissing(data) ==
    data.source_path = JMissing /\ data.audio_source_path = JMissing
TimestampMalformed(data) ==
    data.timestamp.t = "str" /\ ~ParsesAs(FileStamps, data.timestamp.v)
C23_InvalidFileRaises ==
    (/\ rec_loaded # None
     /\ \/ KeyMissing(rec_file.data)
        \/ MediaMissing(rec_file.data)
        \/ TimestampMalformed(rec_file.data)) =>
        rec_loaded = ValueError
\* a file whose only defect is its timestamp has been refused
C23_Witness ==
    /\ rec_loaded = ValueError
    /\ rec_writer = "other"
    /\ ~KeyMissing(rec_file.data)
    /\ ~MediaMissing(rec_file.data)
    /\ rec_file.data.timestamp = JStr("garbage")
    /\ rec_file.data.uuid = JStr("u1")
    /\ rec_file.data.text = JStr("txt")
    /\ rec_file.data.language = JStr("en")
    /\ rec_file.data.segments.t = "list"
    /\ rec_file.data.output_filename = JStr(PathName(rec_file.path))

\* C24: a record written by the transcription worker embeds output_filename
\* equal to the basename of the path it writes, and a record loaded from any
\* path has output_filename equal to that path's basename, even when the
\* embedded value differs.
C24_FilenameIsBasename ==
    /\ rec_writer = "worker" =>
           rec_file.data.output_filename = JStr(PathName(rec_file.path))
    /\ (rec_loaded # None /\ rec_loaded # ValueError) =>
           rec_loaded.item.output_filename = PathName(rec_file.path)
\* a file b.json whose embedded name is a.json has been loaded
C24_Witness ==
    /\ rec_loaded # None
    /\ rec_loaded # ValueError
    /\ rec_file.path.name = "b.json"
    /\ rec_file.data.output_filename = JStr("a.json")
    /\ rec_loaded.item.output_filename = "b.json"
\* a file written by the worker has been loaded
C24_WorkerWitness ==
    /\ rec_writer = "worker"
    /\ rec_loaded # None
    /\ rec_loaded # ValueError
    /\ rec_loaded.item.output_filename = "20240102_000000_b.json"

\* C25: every invocation of the caller's progress, segment and completion
\* callbacks is made by the main loop taking the oldest entry of the idle
\* queue; no step of start_transcription or of the worker thread invokes one,
\* on the empty-file-list path and the error paths included.
C25_CallbacksOnMainLoop ==
    [][delivered' # delivered =>
           /\ idle_queue # <<>>
           /\ delivered' = Append(delivered, Head(idle_queue))
           /\ idle_queue' = Tail(idle_queue)
           /\ UNCHANGED <<t_pc, tlocals, thist>>]_vars
\* the main loop has run a progress, a segment and a completion callback of
\* a run that ended in an error
C25_Witness ==
    /\ t_pc = "done"
    /\ idle_queue = <<>>
    /\ \E i, j, k \in 1..Len(delivered) :
         /\ delivered[i].kind = "progress"
         /\ delivered[j].kind = "segment"
         /\ delivered[k].kind = "completion"
         /\ delivered[k].status = "error"
\* the completion callback of a call without files has run
C25_NoFilesWitness ==
    /\ file_paths = <<>>
    /\ delivered = <<Completion("no_files", <<>>, None, "No files provided.")>>

\* C28: in a batch, every file whose segment iteration finishes without
\* cancellation and without an exception gets its record built and
\* atomic_write_json called once for it, whatever happened to the saves of
\* the earlier files: the worker's step after such a segment loop is the
\* call of atomic_write_json.
C28_FinishedFileIsSaved ==
    [][(t_pc = "after_segments" /\ status # "cancelled"
        /\ t_pc' # "after_segments") =>
           /\ t_pc' = "save"
           /\ io_calls' = io_calls + 1
           /\ io_target' = destination_path']_vars

\* C29: once the cancellation flag has been observed (before a file starts
\* or at a segment boundary), no record is written for the file being
\* processed nor for a later one, and the records already written stay as
\* they are.
C29_NoWriteAfterCancel ==
    [][cancel_seen => UNCHANGED <<fs, io_calls, io_pc>>]_vars
\* the first file's record was written, the flag was observed at a segment
\* of the second file, and the run has ended
C29_Witness ==
    /\ cancel_seen
    /\ t_pc = "done"
    /\ status = "cancelled"
    /\ transcribe_calls = <<1, 2>>
    /\ cur_segment.file = 2
    /\ RecordsWritten # {}
    /\ io_calls = 1

\* C30: when the run ends with status completed_save_failed, the segments
\* passed to the completion callback contain the segments of every file
\* whose transcription completed but whose save failed.
C30_FailedSaveSegmentsPassed ==
    \A c \in 1..Len(AllScheduled) :
        (/\ AllScheduled[c].kind = "completion"
         /\ AllScheduled[c].status = "completed_save_failed") =>
            \A i \in 1..Len(AllScheduled) :
                (/\ AllScheduled[i].kind = "segment"
                 /\ AllScheduled[i].segment.file \in save_failed) =>
                    \E k \in 1..Len(AllScheduled[c].segments) :
                        AllScheduled[c].segments[k] = AllScheduled[i].segment

\* ============================================================ SpecP
\* transcriber.py 29, 144-161, 183, 328-332: every start_transcription starts
\* a thread of its own; each thread looks its model up in the class-level
\* WeakValueDictionary _MODEL_POOL, constructs and inserts it when absent,
\* and then transcribes with it. The steps of different threads interleave
\* between the statements.
pframe == <<tvars, iovars, cvars, bvars, wvars, dvars, rvars, evars, mvars>>

\* a model object is alive while a thread's local variable refers to it
Referenced(m) == \E r \in Runs : run_model[r] = m

\* 328-332: the thread is started; 130-144: it computes its model_key
StartRun(r) ==
    /\ pool_pc[r] = "idle"
    /\ \E k \in ModelKeys : model_key' = [model_key EXCEPT ![r] = k]
    /\ pool_pc' = [pool_pc EXCEPT ![r] = "lookup"]
    /\ UNCHANGED <<_MODEL_POOL, run_model, models_made, pframe>>

\* 145: if model_key in Transcriber._MODEL_POOL
PoolLookup(r) ==
    /\ pool_pc[r] = "lookup"
    /\ pool_pc' = [pool_pc EXCEPT ![r] =
                      IF _MODEL_POOL[model_key[r]] # 0 THEN "reuse"
                      ELSE "construct"]
    /\ UNCHANGED <<_MODEL_POOL, model_key, run_model, models_made, pframe>>

\* 146: model = Transcriber._MODEL_POOL[model_key]; KeyError (caught at 155)
\* when the entry was collected since the lookup
PoolReuse(r) ==
    /\ pool_pc[r] = "reuse"
    /\ IF _MODEL_POOL[model_key[r]] # 0
       THEN /\ run_model' = [run_model EXCEPT ![r] = _MODEL_POOL[model_key[r]]]
            /\ pool_pc' = [pool_pc EXCEPT ![r] = "inference"]
       ELSE /\ pool_pc' = [pool_pc EXCEPT ![r] = "returned"]
            /\ UNCHANGED run_model
    /\ UNCHANGED <<_MODEL_POOL, model_key, models_made, pframe>>

\* 151: model = WhisperModel(...), or it raises (155-161)
PoolConstruct(r) ==
    /\ pool_pc[r] = "construct"
    /\ \/ /\ models_made' = models_made + 1
          /\ run_model' = [run_model EXCEPT ![r] = models_made']
          /\ pool_pc' = [pool_pc EXCEPT ![r] = "insert"]
       \/ /\ pool_pc' = [pool_pc EXCEPT ![r] = "returned"]
          /\ UNCHANGED <<models_made, run_model>>
    /\ UNCHANGED <<_MODEL_POOL, model_key, pframe>>

\* 152: Transcriber._MODEL_POOL[model_key] = model
PoolInsert(r) ==
    /\ pool_pc[r] = "insert"
    /\ _MODEL_POOL' = [_MODEL_POOL EXCEPT ![model_key[r]] = run_model[r]]
    /\ pool_pc' = [pool_pc EXCEPT ![r] = "inference"]
    /\ UNCHANGED <<model_key, run_model, models_made, pframe>>

\* 163-299: the files are transcribed with model and the thread ends, its
\* local reference with it
Inference(r) ==
    /\ pool_pc[r] = "inference"
    /\ pool_pc' = [pool_pc EXCEPT ![r] = "returned"]
    /\ run_model' = [run_model EXCEPT ![r] = 0]
    /\ UNCHANGED <<_MODEL_POOL, model_key, models_made, pframe>>

\* 29: a WeakValueDictionary drops the entry of a model nothing refers to
Collected(k) ==
    /\ _MODEL_POOL[k] # 0
    /\ ~Referenced(_MODEL_POOL[k])
    /\ _MODEL_POOL' = [_MODEL_POOL EXCEPT ![k] = 0]
    /\ UNCHANGED <<pool_pc, model_key, run_model, models_made, pframe>>

\* the caller starts another transcription once one has ended
RunAgain(r) ==
    /\ pool_pc[r] = "returned"
    /\ models_made < MaxModels
    /\ pool_pc' = [pool_pc EXCEPT ![r] = "idle"]
    /\ model_key' = [model_key EXCEPT ![r] = None]
    /\ UNCHANGED <<_MODEL_POOL, run_model, models_made, pframe>>

PInit ==
    /\ TInitVars
    /\ file_paths = <<>>
    /\ IOInitVars
    /\ fs = [p \in Paths |-> NoFile]
    /\ CIdleVars
    /\ BIdleVars
    /\ WIdleVars
    /\ DIdleVars
    /\ RIdleVars
    /\ PIdleVars
    /\ EIdleVars
    /\ MIdleVars
PNext ==
    \/ \E r \in Runs : \/ StartRun(r) \/ PoolLookup(r) \/ PoolReuse(r)
                       \/ PoolConstruct(r) \/ PoolInsert(r) \/ Inference(r)
                       \/ RunAgain(r)
    \/ \E k \in ModelKeys : Collected(k)
SpecP == PInit /\ [][PNext]_vars

\* C26: when two transcription runs with the same (model_name, device,
\* compute_type) key execute concurrently, their pool lookup and insert
\* steps never interleave: they are never both between a lookup that found
\* the key absent and their own insert, so they cannot both construct and
\* insert a model for the key.
BetweenLookupAndInsert(r) == pool_pc[r] \in {"construct", "insert"}
C26_PoolAccessSerialized ==
    \A r1, r2 \in Runs :
        (r1 # r2 /\ BetweenLookupAndInsert(r1) /\ BetweenLookupAndInsert(r2)) =>
            model_key[r1] # model_key[r2]
\* the outcome the claim excludes: two live models for one key, the second
\* insert having replaced the first in the pool
C26_OneModelPerKey ==
    \A r1, r2 \in Runs :
        (/\ r1 # r2 /\ model_key[r1] = model_key[r2]
         /\ run_model[r1] # 0 /\ run_model[r2] # 0) =>
            run_model[r1] = run_model[r2]

\* ============================================================ SpecE
\* ensure_cached(model_name, device, compute_type, progress_cb), called at
\* transcriber.py 98-103, is imported from utils/models.py (13), which does
\* not define it. It is modelled on its specification (ModelCache
\* ensure_ready): a shared map from model name to NotCached, Preparing or
\* Ready, guarded per name; the progress phases start (0), error (-1) and
\* success (100).
eframe == <<tvars, iovars, cvars, bvars, wvars, dvars, rvars, pvars, mvars>>

\* whether a call for the name runs the preparation step
MustPrepareAlways(n) == TRUE
MustPrepare(n) == cache_status[n] # "Ready"

\* a worker thread calls ensure_cached: progress_cb(0), then either the
\* preparation step is started or, for a Ready name, progress_cb(100) and
\* the return
EnsureCachedCall(r) ==
    /\ ec_pc[r] = "idle"
    /\ \E n \in ModelNames :
         /\ cache_status[n] # "Preparing"
         /\ ec_name' = [ec_name EXCEPT ![r] = n]
         /\ IF MustPrepare(n)
            THEN /\ prep_calls[n] < MaxPrepCalls
                 /\ prep_calls' = [prep_calls EXCEPT ![n] = @ + 1]
                 /\ cache_status' = [cache_status EXCEPT ![n] = "Preparing"]
                 /\ ec_progress' = [ec_progress EXCEPT ![r] = <<0>>]
                 /\ ec_pc' = [ec_pc EXCEPT ![r] = "preparing"]
            ELSE /\ ec_progress' = [ec_progress EXCEPT ![r] = <<0, 100>>]
                 /\ ec_pc' = [ec_pc EXCEPT ![r] = "returned"]
                 /\ UNCHANGED <<prep_calls, cache_status>>
    /\ UNCHANGED eframe

\* the preparation step ends: the name is Ready and progress_cb(100), or it
\* failed, progress_cb(-1) and ModelNotAvailableError
PreparationEnds(r) ==
    /\ ec_pc[r] = "preparing"
    /\ \/ /\ cache_status' = [cache_status EXCEPT ![ec_name[r]] = "Ready"]
          /\ ec_progress' = [ec_progress EXCEPT ![r] = Append(@, 100)]
          /\ ec_pc' = [ec_pc EXCEPT ![r] = "returned"]
       \/ /\ cache_status' = [cache_status EXCEPT ![ec_name[r]] = "NotCached"]
          /\ ec_progress' = [ec_progress EXCEPT ![r] = Append(@, -1)]
          /\ ec_pc' = [ec_pc EXCEPT ![r] = "raised"]
    /\ UNCHANGED <<prep_calls, ec_name, eframe>>

\* the thread goes on; a later run calls ensure_cached again
EnsureCachedOver(r) ==
    /\ ec_pc[r] \in {"returned", "raised"}
    /\ ec_pc' = [ec_pc EXCEPT ![r] = "idle"]
    /\ ec_name' = [ec_name EXCEPT ![r] = PyNone]
    /\ ec_progress' = [ec_progress EXCEPT ![r] = <<>>]
    /\ UNCHANGED <<cache_status, prep_calls, eframe>>

EInit ==
    /\ TInitVars
    /\ file_paths = <<>>
    /\ IOInitVars
    /\ fs = [p \in Paths |-> NoFile]
    /\ CIdleVars
    /\ BIdleVars
    /\ WIdleVars
    /\ DIdleVars
    /\ RIdleVars
    /\ PIdleVars
    /\ EIdleVars
    /\ MIdleVars
ENext ==
    \E r \in Runs : EnsureCachedCall(r) \/ PreparationEnds(r)
                    \/ EnsureCachedOver(r)
SpecE == EInit /\ [][ENext]_vars

\* C27: after a first ensure_cached call for a model name has succeeded, no
\* later call for that name invokes the preparation step again, and every
\* call that returns, first or later, has reported the phases 0 and 100 in
\* that order.
C27_PreparedOnce ==
    /\ [][\A n \in ModelNames :
            cache_status[n] = "Ready" => prep_calls'[n] = prep_calls[n]]_vars
    /\ [](\A r \in Runs : ec_pc[r] = "returned" => ec_progress[r] = <<0, 100>>)
\* two calls for the same name have returned and the preparation step ran
\* once: the later call found the name Ready
C27_Witness ==
    \E r, q \in Runs :
        /\ r # q
        /\ ec_pc[r] = "returned"
        /\ ec_pc[q] = "returned"
        /\ ec_name[r] = ec_name[q]
        /\ cache_status[ec_name[r]] = "Ready"
        /\ prep_calls[ec_name[r]] = 1
        /\ ec_progress[r] = <<0, 100>>
        /\ ec_progress[q] = <<0, 100>>

\* C31: no progress or segment callback of a run is executed by the main
\* loop after a completion callback of that run, and the segment callbacks
\* are executed in the order in which the model produced the segments.
ProducedBefore(a, b) == a.file < b.file \/ (a.file = b.file /\ a.id < b.id)
C31_CompletionLast ==
    \A i, j \in 1..Len(delivered) :
        i < j =>
            /\ delivered[i].kind = "completion" => delivered[j].kind = "completion"
            /\ (delivered[i].kind = "segment" /\ delivered[j].kind = "segment") =>
                   ProducedBefore(delivered[i].segment, delivered[j].segment)
\* a run over two files has ended: both files' segments were delivered in
\* order, then the completion callback, and the queue is empty
C31_Witness ==
    /\ t_pc = "done"
    /\ idle_queue = <<>>
    /\ delivered[Len(delivered)].kind = "completion"
    /\ delivered[Len(delivered)].status = "completed"
    /\ \E i, j \in 1..Len(delivered) :
         /\ i < j
         /\ delivered[i] = SegmentCb([file |-> 1, id |-> 0])
         /\ delivered[j] = SegmentCb([file |-> 2, id |-> 0])

\* C32: when a capturer in follow-default mode runs the move queued for a
\* default-changed notification with an empty identifier, it rebuilds onto
\* automatic source selection: the pipeline uses autoaudiosrc (pipewiresrc
\* without a path only when the stored choice is pipewire-default), is bound
\* to no tracked identifier, and no error is emitted.
EmptyMoveRuns ==
    /\ cap_queue # <<>>
    /\ CHead.kind = "do_move"
    /\ CHead.gst_id = ""
    /\ _follow_system_default_setting
    /\ cap_queue' \in {CRest, Append(CRest, DoStartCb)}
OnAutomaticSource(p, target, gst_id) ==
    /\ p # None
    /\ p.prop = None
    /\ IF target = "pipewire-default"
       THEN p.source = "pipewiresrc" /\ gst_id = "pipewire-default"
       ELSE p.source = "autoaudiosrc" /\ gst_id = ""
NoErrorEmitted(run) ==
    \A i \in 1..Len(run.signals) : run.signals[i] # "error"
C32_EmptyIdFallsBackToAuto ==
    [][EmptyMoveRuns =>
           /\ OnAutomaticSource(pipeline', _target_device_id, _current_gst_id')
           /\ NoErrorEmitted(last_run')]_vars
\* the same when GStreamer makes and links the elements of the new pipeline;
\* when it does not, no pipeline results and the failure is reported with
\* the error signal, as for every other move
C32_EmptyIdFallsBackToAutoIfBuilt ==
    [][EmptyMoveRuns =>
           /\ last_run'.ok =>
                  /\ OnAutomaticSource(pipeline', _target_device_id,
                                       _current_gst_id')
                  /\ NoErrorEmitted(last_run')
           /\ ~last_run'.ok => (pipeline' = None \/ ~pipeline'.linked)]_vars
\* a capturer in follow-default mode has run the move of an empty identifier and
\* holds an autoaudiosrc pipeline
C32_Witness ==
    /\ last_run # None
    /\ last_run.did = "build"
    /\ last_run.ok
    /\ _follow_system_default_setting
    /\ _is_following_system_default
    /\ _default_node_props = None
    /\ _current_gst_id = ""
    /\ _current_pw_serial = "-1"
    /\ pipeline # None
    /\ pipeline.source = "autoaudiosrc"

\* ============================================================ SpecM
\* ModelManagementDialog (views/model_management_dialog.py): one ModelItem
\* of the list, its Download and Cancel buttons, the caching thread started
\* by a Download click, the cache-status worker, and the idle callbacks the
\* two threads queue on the main loop.
mframe == <<tvars, iovars, cvars, bvars, wvars, dvars, rvars, pvars, evars>>
ItemName == "tiny"

\* _on_factory_bind 243-261: what the row shows for the item; 252 also
\* makes the whole row insensitive while is_downloading is set
IsError == item_status \in {"Error Caching", "Error Checking Status"}
IsCached == item_status = "Downloaded"
CanDownload ==
    ~IsCached /\ ~is_downloading /\ item_status # "Checking status..."
DownloadButtonShown == CanDownload \/ IsError
CancelButtonShown == is_downloading

\* _on_download_clicked 296-328
OnDownloadClicked ==
    /\ DownloadButtonShown
    /\ downloads_started < MaxDownloads
    /\ IF is_downloading
       THEN UNCHANGED mvars
       ELSE /\ is_downloading' = TRUE
            /\ item_status' = "Caching..."
            /\ active_downloads' = active_downloads \cup {ItemName}
            /\ cache_threads' = cache_threads + 1
            /\ downloads_started' = downloads_started + 1
            /\ max_cache_threads' =
                   IF cache_threads + 1 > max_cache_threads
                   THEN cache_threads + 1 ELSE max_cache_threads
            /\ UNCHANGED <<check_threads, dlg_idle>>
    /\ UNCHANGED mframe

\* _on_cancel_clicked 416-442: nothing stops the caching thread
OnCancelClicked ==
    /\ CancelButtonShown
    /\ IF ItemName \in active_downloads
       THEN /\ item_status' = "Cancelling..."
            /\ is_downloading' = FALSE
       ELSE UNCHANGED <<item_status, is_downloading>>
    /\ UNCHANGED <<active_downloads, cache_threads, check_threads, dlg_idle,
                   downloads_started, max_cache_threads, mframe>>

\* _cache_model_in_thread 330-345: WhisperModel(...) returns or raises
CacheModelInThread ==
    /\ cache_threads > 0
    /\ \E new_status \in {"Cached", "Error Caching"} :
         dlg_idle' = Append(dlg_idle, [kind |-> "update_status",
                                       new_status |-> new_status])
    /\ cache_threads' = cache_threads - 1
    /\ UNCHANGED <<is_downloading, item_status, active_downloads,
                   check_threads, downloads_started, max_cache_threads,
                   mframe>>

\* _check_model_cache_status_worker 116-146
CheckModelCacheStatusWorker ==
    /\ check_threads > 0
    /\ \E r \in {"cached", "not_cached", "error"} :
         dlg_idle' = Append(dlg_idle, [kind |-> "cache_status", result |-> r])
    /\ check_threads' = check_threads - 1
    /\ UNCHANGED <<is_downloading, item_status, active_downloads,
                   cache_threads, downloads_started, max_cache_threads,
                   mframe>>

\* _update_model_item_status 348-413, run by the main loop
UpdateModelItemStatus ==
    /\ dlg_idle # <<>>
    /\ Head(dlg_idle).kind = "update_status"
    /\ dlg_idle' = Tail(dlg_idle)
    /\ is_downloading' = FALSE
    /\ item_status' = "Checking status..."
    /\ check_threads' = check_threads + 1
    /\ active_downloads' = active_downloads \ {ItemName}
    /\ UNCHANGED <<cache_threads, downloads_started, max_cache_threads,
                   mframe>>

\* _update_model_item_cache_status_from_worker 148-178
UpdateModelItemCacheStatusFromWorker ==
    /\ dlg_idle # <<>>
    /\ Head(dlg_idle).kind = "cache_status"
    /\ dlg_idle' = Tail(dlg_idle)
    /\ item_status' =
           IF is_downloading THEN item_status
           ELSE IF Head(dlg_idle).result = "error"
                THEN "Error Checking Status"
                ELSE IF Head(dlg_idle).result = "cached"
                     THEN "Downloaded" ELSE "Not Downloaded"
    /\ UNCHANGED <<is_downloading, active_downloads, cache_threads,
                   check_threads, downloads_started, max_cache_threads,
                   mframe>>

\* _populate_model_list 89-114 has made the item and started its first
\* cache-status worker
MInit ==
    /\ TInitVars
    /\ file_paths = <<>>
    /\ IOInitVars
    /\ fs = [p \in Paths |-> NoFile]
    /\ CIdleVars
    /\ BIdleVars
    /\ WIdleVars
    /\ DIdleVars
    /\ RIdleVars
    /\ PIdleVars
    /\ EIdleVars
    /\ is_downloading = FALSE
    /\ item_status = "Checking status..."
    /\ active_downloads = {}
    /\ cache_threads = 0
    /\ check_threads = 1
    /\ dlg_idle = <<>>
    /\ downloads_started = 0
    /\ max_cache_threads = 0
MNext ==
    \/ OnDownloadClicked
    \/ OnCancelClicked
    \/ CacheModelInThread
    \/ CheckModelCacheStatusWorker
    \/ UpdateModelItemStatus
    \/ UpdateModelItemCacheStatusFromWorker
SpecM == MInit /\ [][MNext]_vars

ReportedEntries ==
    AppendOrder(<<SystemDefaultEntry, PipewireDefaultEntry>>,
                [i \in 1..Len(monitor_in.devices) |->
                    RealDevice(monitor_in.devices[i])])
IdOrName(dev) == IF dev.id \in {PyNone, ""} THEN dev.name ELSE dev.id
IdAndKind(dev) == <<IdOrName(dev), dev.device_type>>

\* C34: get_input_devices() collapses two reported devices only if they agree
\* on both the id (or the name when there is no id) and the kind: every
\* (id-or-name, kind) pair among the reported devices is still present in the
\* returned list, so a physical device and a monitor with the same id are
\* both kept.
C34_CollapsedOnlyOnIdAndKind ==
    (devices_ret # None /\ monitor_in.started) =>
        \A i \in 1..Len(ReportedEntries) :
            \E j \in 1..Len(devices_ret) :
                IdAndKind(devices_ret[j]) = IdAndKind(ReportedEntries[i])

\* C35: when atomic_write_json fails at any step, the exception is re-raised
\* to the caller, the target file is unchanged, and no temporary file
\* created by the call remains in the target directory.
C35_FailureLeavesNothing ==
    [][IOExcept =>
         /\ io_pc' = "raised"
         /\ io_exc' # "none"
         /\ fs'[io_target] = old_content
         /\ ~tmp_file'.exists
         /\ leftover_tmps' = leftover_tmps]_vars

\* C35 (amended): the exception is re-raised and the target is unchanged;
\* a temporary file stays behind only when the call had created one and
\* removing it failed
C35_FailureReraisedTargetKept ==
    [][IOExcept =>
         /\ io_pc' = "raised"
         /\ io_exc # "none"
         /\ io_exc' = io_exc
         /\ fs' = fs
         /\ fs[io_target] = old_content
         /\ leftover_tmps' # leftover_tmps =>
                (temp_file_path /\ tmp_file.exists
                 /\ leftover_tmps' = leftover_tmps + 1)]_vars

\* a call that had serialized all of the data raised OSError: the target
\* still holds its previous content and no temporary file is left
C35_Witness ==
    /\ io_pc = "raised"
    /\ io_exc = "OSError"
    /\ dumped = NChunks
    /\ old_content.exists
    /\ fs[io_target] = old_content
    /\ ~tmp_file.exists
    /\ leftover_tmps = 0

\* C36: once stop() has been called and every idle callback has run, with no
\* start() called by the caller after that stop(), the pipeline is not
\* PLAYING: a rebuild or move queued before the stop cannot restart it.
C36_StoppedStaysStopped ==
    (stop_called /\ cap_queue = <<>> /\ pipeline # None) =>
        pipeline.state # "PLAYING"

\* C37: after cleanup_on_destroy() has been called and every idle callback
\* queued before or by it has run, the capturer holds no pipeline, no
\* tracker handler and no settings handlers, even when a move_to or a
\* rebuild was already queued at the time of the call.
C37_CleanedUpHoldsNothing ==
    (~settings_handlers /\ cap_queue = <<>>) =>
        /\ pipeline = None
        /\ _tracker_signal_handler_id = 0
        /\ tracker_handlers = 0

\* the input file a record file was written for
RecordSource(f) == f.content[1][1].source_path

\* C38: distinct input files whose transcription completes are persisted to
\* distinct record files: no record written by the worker replaces a record
\* written for a different input file.
C38_RecordsNotOverwritten ==
    [][\A p \in Paths :
         (fs[p].exists /\ fs'[p].exists /\ fs'[p] # fs[p]) =>
             RecordSource(fs'[p]) = RecordSource(fs[p])]_vars

\* C39: two consecutive default-changed emissions of one tracker instance
\* never carry the same (identifier, serial) pair: a check that resolves to
\* the unchanged default, or fails again after the default was reported
\* lost, emits nothing.
C39_NoRepeatedEmission ==
    [][(RunCheck /\ last_check'.emitted # None) =>
           last_check'.emitted # last_emitted]_vars

\* the instance emitted the pair of the system's default, and a later check
\* that resolved to the same node emitted nothing
C39_Witness ==
    /\ _instance # 0
    /\ last_emitted # None
    /\ wp_default # PyNone
    /\ last_emitted = NodeProps(wp_default)
    /\ last_check # None
    /\ last_check.outcome = "node"
    /\ last_check.emitted = None

\* C40: after stop() returns on a tracker instance, that instance emits no
\* further default-changed notification, even if re-check callbacks were
\* queued on the event loop before the stop: a check run for an instance
\* the class no longer holds emits nothing and remembers nothing.
C40_StoppedInstanceSilent ==
    [][(RunCheck /\ Head(trk_idle) # _instance) =>
           /\ last_check'.emitted = None
           /\ UNCHANGED <<_default_node_props, last_emitted>>]_vars

\* a check queued by the first instance ran after that instance was stopped,
\* while the second instance was connected and the system's default source
\* could be resolved; it ended at the guard
C40_Witness ==
    /\ instances_made = 2
    /\ _instance = 2
    /\ SystemDefaultIs(wp_default)
    /\ last_check # None
    /\ last_check.outcome = "not_connected"
    /\ last_emitted = None
====
